---- MODULE Spec2Model ----
(***************************************************************************)
(* Model of the script text pipeline and the audio/caption synchronisation *)
(* of auto-video-product (paper_script_generator.py, audio_generator.py,   *)
(* video_editor.py, script_generator.py, github_script_generator.py,       *)
(* bsd_script_generator.py and the daily_*_video.py pipelines).            *)
(*                                                                         *)
(* Texts are sequences of characters.  A character is written as a short   *)
(* string:                                                                 *)
(*   "J"  a native-script (kana/kanji) character, inside CJK_RANGE         *)
(*   "W"  the placeholder 英語表記 written by fallback_wrap_english          *)
(*   "R"  the katakana reading of a known abbreviation                     *)
(*   "K"  the katakana word スラッシュ written by normalize_tts_text         *)
(*   "D"  a politeness marker (です, ます, ...), hiragana                    *)
(*   "*"  the katakana middle dot ・ (U+30FB, inside CJK_RANGE)             *)
(*   "N"  the line break written by wrap_text                              *)
(*   "a"  a Latin letter                                                   *)
(*   "s"  the Latin letters of the marker name "skip"                      *)
(*   "E"  an abbreviation of ABBREVIATION_READINGS (Latin capitals)        *)
(*   "1"  a digit            " "  a whitespace character                   *)
(*   "("  the full-width （    ")"  the full-width ）                        *)
(*   "<" ">" "/"  themselves, so <skip> is "<","s",">" and </skip> is      *)
(*   "<","/","s",">"                                                       *)
(*   "."  the native full stop 。   ","  the native comma 、                 *)
(***************************************************************************)
EXTENDS Integers, Sequences, FiniteSets, TLC

(***************************************************************************)
(* Character classes of the regular expressions.                           *)
(***************************************************************************)
CJK_RANGE == {"J", "W", "R", "K", "D", "*"}
ASCII_LETTER == {"a", "s", "E"}
DIGIT == {"1"}
ALNUM == ASCII_LETTER \cup DIGIT
WHITESPACE == {" "}
\* [、。！？…]
CLOSING_PUNCT == {".", ","}
\* [「『（【] and [」』）】]
OPEN_BRACKET == {"("}
CLOSE_BRACKET == {")"}
\* ENGLISH_TOKEN_RE = [A-Za-z][A-Za-z0-9+\\-./]* : the continuation class.
\* As written the class holds the range "\\-." whose bounds are reversed;
\* it is modelled as the set of characters it lists.
ENGLISH_TOKEN_TAIL == ALNUM \cup {"/"}

SkipOpen == <<"<", "s", ">">>
SkipClose == <<"<", "/", "s", ">">>

(***************************************************************************)
(* Generic helpers on character sequences.                                 *)
(***************************************************************************)
MatchAt(t, i, p) ==
    /\ i >= 1
    /\ i + Len(p) - 1 <= Len(t)
    /\ \A k \in 1..Len(p) : t[i + k - 1] = p[k]

\* str.find(p, i): the least position >= i where p occurs, 0 when none
FindFrom(t, p, i) ==
    IF \E j \in i..Len(t) : MatchAt(t, j, p)
    THEN CHOOSE j \in i..Len(t) :
            /\ MatchAt(t, j, p)
            /\ \A k \in i..(j - 1) : ~MatchAt(t, k, p)
    ELSE 0

Contains(t, p) == FindFrom(t, p, 1) # 0

RECURSIVE FlattenSeq(_)
FlattenSeq(ss) == IF ss = <<>> THEN <<>> ELSE Head(ss) \o FlattenSeq(Tail(ss))

\* positions of t kept when the positions in drop are deleted
RECURSIVE DropPositions(_, _, _)
DropPositions(t, drop, i) ==
    IF i > Len(t) THEN <<>>
    ELSE (IF i \in drop THEN <<>> ELSE <<t[i]>>) \o DropPositions(t, drop, i + 1)

(***************************************************************************)
(* SKIP_TAG_RE = <skip>.*?</skip> (DOTALL): the leftmost opening marker    *)
(* that is followed by a closing marker, up to the first such closing      *)
(* marker.                                                                 *)
(***************************************************************************)
SkipSpanFrom(t, pos) ==
    LET o == FindFrom(t, SkipOpen, pos)
        c == IF o = 0 THEN 0 ELSE FindFrom(t, SkipClose, o + Len(SkipOpen))
    IN  IF o = 0 \/ c = 0 THEN <<0, 0>> ELSE <<o, c + Len(SkipClose) - 1>>

\* SKIP_TAG_RE.sub("", text)
RECURSIVE StripSkipFrom(_, _)
StripSkipFrom(t, pos) ==
    LET m == SkipSpanFrom(t, pos)
    IN  IF m[1] = 0 THEN SubSeq(t, pos, Len(t))
        ELSE SubSeq(t, pos, m[1] - 1) \o StripSkipFrom(t, m[2] + 1)

StripSkip(t) == StripSkipFrom(t, 1)

\* ASCII_LETTER_RE.search(text)
HasAsciiLetter(t) == \E i \in 1..Len(t) : t[i] \in ASCII_LETTER

\* the test of rewrite_english_dialogue and generate_paper_script:
\* ASCII_LETTER_RE.search(SKIP_TAG_RE.sub("", text))
HasBareEnglish(t) == HasAsciiLetter(StripSkip(t))

(***************************************************************************)
(* normalize_dialogue_text (paper_script_generator.py, script_generator.py *)
(* and github_script_generator.py hold the same function).                 *)
(***************************************************************************)
\* the character before the text is "^", the character after it is "$"
CharAt(t, i) == IF i < 1 THEN "^" ELSE IF i > Len(t) THEN "$" ELSE t[i]

IsWs(t, i) == i >= 1 /\ i <= Len(t) /\ t[i] \in WHITESPACE

\* first and last position of the whitespace run that holds position i
RunStart(t, i) == CHOOSE a \in 1..i :
    /\ \A k \in a..i : IsWs(t, k)
    /\ ~IsWs(t, a - 1)
RunEnd(t, i) == CHOOSE b \in i..Len(t) :
    /\ \A k \in i..b : IsWs(t, k)
    /\ ~IsWs(t, b + 1)

\* str.strip()
Strip(t) ==
    IF \A i \in 1..Len(t) : IsWs(t, i) THEN <<>>
    ELSE LET a == CHOOSE i \in 1..Len(t) : ~IsWs(t, i) /\ \A k \in 1..(i - 1) : IsWs(t, k)
             b == CHOOSE i \in 1..Len(t) : ~IsWs(t, i) /\ \A k \in (i + 1)..Len(t) : IsWs(t, k)
         IN  SubSeq(t, a, b)

\* a substitution that joins the whitespace characters two by two
CollapseWhitespace_Pairs(t) ==
    LET kept == DropPositions(t, {i \in 1..Len(t) :
                    IsWs(t, i) /\ IsWs(t, i - 1) /\ ~IsWs(t, i - 2)}, 1)
    IN  [i \in 1..Len(kept) |-> IF kept[i] \in WHITESPACE THEN " " ELSE kept[i]]

\* re.sub(r"\s+", " ", text)
CollapseWhitespace(t) ==
    LET kept == DropPositions(t, {i \in 1..Len(t) : IsWs(t, i) /\ IsWs(t, i - 1)}, 1)
    IN  [i \in 1..Len(kept) |-> IF kept[i] \in WHITESPACE THEN " " ELSE kept[i]]

\* sub("") of a pattern made of \s+ with a condition on the character before
\* the run and on the character after it
RemoveWsRuns(t, before, after) ==
    DropPositions(t, {i \in 1..Len(t) :
        /\ IsWs(t, i)
        /\ CharAt(t, RunStart(t, i) - 1) \in before
        /\ CharAt(t, RunEnd(t, i) + 1) \in after}, 1)

\* every character, the start of the text and its end
AnyChar == CJK_RANGE \cup ALNUM \cup CLOSING_PUNCT \cup OPEN_BRACKET \cup CLOSE_BRACKET
                \cup {"<", ">", "/", "^", "$"}

normalize_dialogue_text(text) ==
    IF text = <<>> THEN <<>>
    ELSE LET n1 == Strip(CollapseWhitespace(text))
             \* SPACE_BETWEEN_CJK
             n2 == RemoveWsRuns(n1, CJK_RANGE \cup DIGIT, CJK_RANGE \cup DIGIT)
             \* SPACE_BETWEEN_CJK_ASCII
             n3 == RemoveWsRuns(n2, CJK_RANGE, ALNUM)
             \* SPACE_BETWEEN_ASCII_CJK
             n4 == RemoveWsRuns(n3, ALNUM, CJK_RANGE)
             n5 == RemoveWsRuns(n4, AnyChar, CLOSING_PUNCT)
             n6 == RemoveWsRuns(n5, OPEN_BRACKET, AnyChar)
             n7 == RemoveWsRuns(n6, AnyChar, CLOSE_BRACKET)
         IN  n7

(***************************************************************************)
(* apply_abbreviation_readings: every abbreviation that has no letter or   *)
(* digit on either side becomes reading（<skip>abbr</skip>）.                *)
(***************************************************************************)
AbbreviationMatch(t, i) ==
    /\ t[i] = "E"
    /\ CharAt(t, i - 1) \notin ALNUM
    /\ CharAt(t, i + 1) \notin ALNUM

Annotated(reading, token) == reading \o <<"(">> \o SkipOpen \o token \o SkipClose \o <<")">>

apply_abbreviation_readings(text) ==
    FlattenSeq([i \in 1..Len(text) |->
        IF AbbreviationMatch(text, i) THEN Annotated(<<"R">>, <<"E">>) ELSE <<text[i]>>])

(***************************************************************************)
(* fallback_wrap_english                                                   *)
(***************************************************************************)
\* end of the ENGLISH_TOKEN_RE match that starts at the letter at position i
TokenEnd(t, i) == CHOOSE j \in i..Len(t) :
    /\ \A k \in (i + 1)..j : t[k] \in ENGLISH_TOKEN_TAIL
    /\ CharAt(t, j + 1) \notin ENGLISH_TOKEN_TAIL

\* ENGLISH_TOKEN_RE.sub(repl, s) with repl = 英語表記（<skip>token</skip>）
RECURSIVE WrapTokensFrom(_, _)
WrapTokensFrom(s, i) ==
    IF i > Len(s) THEN <<>>
    ELSE IF s[i] \in ASCII_LETTER
         THEN Annotated(<<"W">>, SubSeq(s, i, TokenEnd(s, i))) \o WrapTokensFrom(s, TokenEnd(s, i) + 1)
         ELSE <<s[i]>> \o WrapTokensFrom(s, i + 1)

WrapTokens(s) == WrapTokensFrom(s, 1)

\* the scanning loop of replace_outside_parentheses: the list of
\* (kind, chunk) parts
RECURSIVE ParenParts(_, _, _, _, _)
ParenParts(t, i, parts, buf, depth) ==
    IF i > Len(t)
    THEN IF buf # <<>>
         THEN Append(parts, [kind |-> IF depth = 0 THEN "outside" ELSE "inside", chunk |-> buf])
         ELSE parts
    ELSE IF t[i] = "("
         THEN ParenParts(t, i + 1,
                  IF depth = 0 THEN Append(parts, [kind |-> "outside", chunk |-> buf]) ELSE parts,
                  (IF depth = 0 THEN <<>> ELSE buf) \o <<t[i]>>,
                  depth + 1)
    ELSE IF t[i] = ")"
         THEN LET d == IF depth > 0 THEN depth - 1 ELSE depth
                  b == Append(buf, t[i])
              IN  IF d = 0
                  THEN ParenParts(t, i + 1, Append(parts, [kind |-> "inside", chunk |-> b]), <<>>, d)
                  ELSE ParenParts(t, i + 1, parts, b, d)
    ELSE ParenParts(t, i + 1, parts, Append(buf, t[i]), depth)

\* replace_outside_parentheses(text, lambda s: ENGLISH_TOKEN_RE.sub(repl, s))
replace_outside_parentheses(text) ==
    LET parts == ParenParts(text, 1, <<>>, <<>>, 0)
    IN  FlattenSeq([k \in 1..Len(parts) |->
            IF parts[k].kind = "outside" THEN WrapTokens(parts[k].chunk) ELSE parts[k].chunk])

\* replace_outside_skip(text, apply_rules)
RECURSIVE replace_outside_skip(_, _)
replace_outside_skip(text, pos) ==
    LET m == SkipSpanFrom(text, pos)
    IN  IF m[1] = 0 THEN replace_outside_parentheses(SubSeq(text, pos, Len(text)))
        ELSE replace_outside_parentheses(SubSeq(text, pos, m[1] - 1))
                \o SubSeq(text, m[1], m[2])
                \o replace_outside_skip(text, m[2] + 1)

fallback_wrap_english(text) == replace_outside_skip(text, 1)

(***************************************************************************)
(* bsd_script_generator.py: its own normalize_dialogue_text, and           *)
(* chunk_text.  "N" is the newline character.                              *)
(***************************************************************************)
\* normalize_dialogue_text of bsd_script_generator.py:
\* re.sub(r"\s+", " ", text).strip(); None and "" give ""
bsd_normalize_dialogue_text(text) ==
    IF text = <<>> THEN <<>> ELSE Strip(CollapseWhitespace(text))

\* "\n\n"
ParagraphBreak == <<"N", "N">>

\* text.split("\n\n")
RECURSIVE SplitParagraphs(_)
SplitParagraphs(text) ==
    LET at == FindFrom(text, ParagraphBreak, 1)
    IN  IF at = 0 THEN <<text>>
        ELSE <<SubSeq(text, 1, at - 1)>> \o SplitParagraphs(SubSeq(text, at + 2, Len(text)))

\* while len(current_chunk) > max_chars; st = [chunks, current_chunk]
RECURSIVE SliceChunk(_, _)
SliceChunk(st, max_chars) ==
    IF Len(st.current_chunk) > max_chars
    THEN SliceChunk([chunks |-> Append(st.chunks, SubSeq(st.current_chunk, 1, max_chars)),
                     current_chunk |-> SubSeq(st.current_chunk, max_chars + 1, Len(st.current_chunk))],
                    max_chars)
    ELSE st

\* for para in paragraphs
RECURSIVE ChunkParagraphs(_, _, _, _)
ChunkParagraphs(paragraphs, k, max_chars, st) ==
    IF k > Len(paragraphs) THEN st
    ELSE LET para == paragraphs[k]
             nxt == IF Len(st.current_chunk) + Len(para) < max_chars
                    THEN [chunks |-> st.chunks, current_chunk |-> st.current_chunk \o para \o ParagraphBreak]
                    ELSE SliceChunk([chunks |-> IF st.current_chunk # <<>>
                                                THEN Append(st.chunks, st.current_chunk)
                                                ELSE st.chunks,
                                     current_chunk |-> para \o ParagraphBreak], max_chars)
         IN  ChunkParagraphs(paragraphs, k + 1, max_chars, nxt)

\* a chunk_text that forgets the chunk in progress at the end of the text
chunk_text_DropsLast(text, max_chars) ==
    IF Len(text) <= max_chars THEN <<text>>
    ELSE ChunkParagraphs(SplitParagraphs(text), 1, max_chars,
                         [chunks |-> <<>>, current_chunk |-> <<>>]).chunks

chunk_text(text, max_chars) ==
    IF Len(text) <= max_chars THEN <<text>>
    ELSE LET st == ChunkParagraphs(SplitParagraphs(text), 1, max_chars,
                                   [chunks |-> <<>>, current_chunk |-> <<>>])
         IN  IF st.current_chunk # <<>> THEN Append(st.chunks, st.current_chunk) ELSE st.chunks

(***************************************************************************)
(* The extraction of the JSON object from the reply of the model           *)
(* (generate_script, generate_paper_script, generate_github_script,        *)
(* generate_section_script).  "~" is the backtick, "j" the word json.      *)
(***************************************************************************)
\* the fence markers: three backticks, and three backticks and json
Fence == <<"~", "~", "~">>
FenceJson == <<"~", "~", "~", "j">>

\* str.replace(p, ""): the occurrences are found left to right and do not
\* overlap
RECURSIVE RemoveAll(_, _)
RemoveAll(t, p) ==
    LET at == FindFrom(t, p, 1)
    IN  IF at = 0 THEN t
        ELSE SubSeq(t, 1, at - 1) \o RemoveAll(SubSeq(t, at + Len(p), Len(t)), p)

\* str.rfind(c) of one character, 1-based, 0 when absent
RFindChar(t, c) ==
    IF \E i \in 1..Len(t) : t[i] = c
    THEN CHOOSE i \in 1..Len(t) : t[i] = c /\ \A k \in (i + 1)..Len(t) : t[k] # c
    ELSE 0

\* content.replace(FenceJson, "").replace(Fence, "").strip()
WithoutFences(content) == Strip(RemoveAll(RemoveAll(content, FenceJson), Fence))

\* an extraction that stops at the first closing brace
ExtractJsonObject_FirstClose(content) ==
    LET c == WithoutFences(content)
        start_idx == FindFrom(c, <<"{">>, 1)
        end_idx == FindFrom(c, <<"}">>, 1)
    IN  IF start_idx # 0 /\ end_idx # 0 THEN SubSeq(c, start_idx, end_idx) ELSE c

\* the text handed to json.loads
ExtractJsonObject(content) ==
    LET c == WithoutFences(content)
        start_idx == FindFrom(c, <<"{">>, 1)
        end_idx == RFindChar(c, "}")
    IN  IF start_idx # 0 /\ end_idx # 0 THEN SubSeq(c, start_idx, end_idx) ELSE c

(***************************************************************************)
(* split_long_text, force_split, split_dialogue_lines                      *)
(***************************************************************************)
\* SENTENCE_SPLIT_RE = (?<=[。！？!?])
SENTENCE_END == {"."}
\* SOFT_BREAK_CHARS
SOFT_BREAK_CHARS == {",", "*", "/", " "}

\* [s for s in SENTENCE_SPLIT_RE.split(text) if s]
RECURSIVE Sentences(_, _)
Sentences(t, from) ==
    IF from > Len(t) THEN <<>>
    ELSE IF \E i \in from..Len(t) : t[i] \in SENTENCE_END
         THEN LET e == CHOOSE i \in from..Len(t) :
                          t[i] \in SENTENCE_END /\ \A k \in from..(i - 1) : t[k] \notin SENTENCE_END
              IN  <<SubSeq(t, from, e)>> \o Sentences(t, e + 1)
         ELSE <<SubSeq(t, from, Len(t))>>

\* the while loop of force_split; cut is a 0-based index as in the source
RECURSIVE ForceSplitLoop(_, _, _)
ForceSplitLoop(remaining, max_chars, chunks) ==
    IF remaining # <<>> /\ Len(remaining) > max_chars
    THEN LET found == {i \in 0..max_chars : i + 1 <= Len(remaining) /\ remaining[i + 1] \in SOFT_BREAK_CHARS}
             best == IF found = {} THEN -1 ELSE CHOOSE i \in found : \A k \in found : k <= i
             cut == IF best <= 0 THEN max_chars ELSE best
             chunk == Strip(SubSeq(remaining, 1, cut))
         IN  ForceSplitLoop(Strip(SubSeq(remaining, cut + 1, Len(remaining))), max_chars,
                            IF chunk # <<>> THEN Append(chunks, chunk) ELSE chunks)
    ELSE IF remaining # <<>> THEN Append(chunks, remaining) ELSE chunks

force_split(text, max_chars) == ForceSplitLoop(Strip(text), max_chars, <<>>)

\* the for loop of split_long_text over the sentences; st = [chunks, current]
RECURSIVE PackSentences(_, _, _, _)
PackSentences(sentences, k, max_chars, st) ==
    IF k > Len(sentences) THEN st
    ELSE LET sentence == sentences[k]
             nxt == IF st.current = <<>>
                    THEN IF Len(sentence) <= max_chars
                         THEN [chunks |-> st.chunks, current |-> sentence]
                         ELSE [chunks |-> st.chunks \o force_split(sentence, max_chars), current |-> <<>>]
                    ELSE IF Len(st.current) + Len(sentence) <= max_chars
                         THEN [chunks |-> st.chunks, current |-> st.current \o sentence]
                         ELSE IF Len(sentence) <= max_chars
                              THEN [chunks |-> Append(st.chunks, st.current), current |-> sentence]
                              ELSE [chunks |-> Append(st.chunks, st.current) \o force_split(sentence, max_chars),
                                    current |-> <<>>]
         IN  PackSentences(sentences, k + 1, max_chars, nxt)

split_long_text(text, max_chars) ==
    IF text = <<>> THEN <<>>
    ELSE LET t == Strip(text)
         IN  IF max_chars <= 0 \/ Len(t) <= max_chars THEN <<t>>
             ELSE LET st == PackSentences(Sentences(t, 1), 1, max_chars, [chunks |-> <<>>, current |-> <<>>])
                      chunks == IF st.current # <<>> THEN Append(st.chunks, st.current) ELSE st.chunks
                  IN  SelectSeq([k \in 1..Len(chunks) |-> Strip(chunks[k])], LAMBDA c : c # <<>>)

\* a dialogue is a sequence of lines [speaker, text]; a missing or empty
\* speaker is written <<>>
DEFAULT_SPEAKER_NAME == <<"J">>

SpeakerOrDefault(speaker) == IF speaker = <<>> THEN DEFAULT_SPEAKER_NAME ELSE speaker

RECURSIVE split_dialogue_lines(_, _)
split_dialogue_lines(dialogue, max_chars) ==
    IF dialogue = <<>> THEN <<>>
    ELSE IF max_chars <= 0 THEN dialogue
    ELSE LET line == Head(dialogue)
             pieces == split_long_text(normalize_dialogue_text(line.text), max_chars)
             normalized == SelectSeq([k \in 1..Len(pieces) |-> normalize_dialogue_text(pieces[k])],
                                     LAMBDA c : c # <<>>)
         IN  [k \in 1..Len(normalized) |->
                 [speaker |-> SpeakerOrDefault(line.speaker), text |-> normalized[k]]]
             \o split_dialogue_lines(Tail(dialogue), max_chars)

(***************************************************************************)
(* audio_generator.normalize_tts_text                                      *)
(***************************************************************************)
\* a politeness marker (です, ます, ...) is the character "D"
HONORIFIC == {"D"}
\* the separators of HONORIFIC_SPLIT_PATTERN: [/／・]; "*" is the middle dot
HONORIFIC_SEPARATOR == {"/", "*"}

\* HONORIFIC_SPLIT_PATTERN.sub(r"\1、\2", text): matches are found left to
\* right and do not overlap
RECURSIVE HonorificSplitFrom(_, _)
HonorificSplitFrom(t, i) ==
    IF i > Len(t) THEN <<>>
    ELSE IF /\ i + 2 <= Len(t)
            /\ t[i] \in HONORIFIC
            /\ t[i + 1] \in HONORIFIC_SEPARATOR
            /\ t[i + 2] \in HONORIFIC
         THEN <<t[i], ",", t[i + 2]>> \o HonorificSplitFrom(t, i + 3)
         ELSE <<t[i]>> \o HonorificSplitFrom(t, i + 1)

\* pattern.sub(reading, text) for the patterns of ABBREVIATION_PATTERNS
TtsAbbreviationReadings(t) ==
    [i \in 1..Len(t) |-> IF AbbreviationMatch(t, i) THEN "R" ELSE t[i]]

\* replace("/", "スラッシュ")
ReplaceSlash(t) == [i \in 1..Len(t) |-> IF t[i] = "/" THEN "K" ELSE t[i]]

normalize_tts_text(text) ==
    ReplaceSlash(TtsAbbreviationReadings(HonorificSplitFrom(text, 1)))

(***************************************************************************)
(* video_editor.wrap_text: a line break "N" after every max_chars          *)
(* characters, none at the end of the text                                 *)
(***************************************************************************)
RECURSIVE WrapLines(_, _)
WrapLines(t, max_chars) ==
    IF Len(t) <= max_chars THEN (IF t = <<>> THEN <<>> ELSE <<t>>)
    ELSE <<SubSeq(t, 1, max_chars)>> \o WrapLines(SubSeq(t, max_chars + 1, Len(t)), max_chars)

RECURSIVE JoinLines(_)
JoinLines(lines) ==
    IF lines = <<>> THEN <<>>
    ELSE IF Len(lines) = 1 THEN lines[1]
    ELSE lines[1] \o <<"N">> \o JoinLines(Tail(lines))

wrap_text(text, max_chars) == JoinLines(WrapLines(text, max_chars))

(***************************************************************************)
(* video_editor.create_podcast_video                                       *)
(*                                                                         *)
(* audio_files: the sorted *.wav files of the audio folder, each with the  *)
(* duration AudioFileClip reports; subtitles: the dialogue of script_file  *)
(* (<<>> when no script file is given or it does not exist); clip_fails:   *)
(* the indices whose TextClip raises.                                      *)
(***************************************************************************)
WRAP_MAX_CHARS == 30

\* script_data["dialogue"] -> subtitles (index, speaker, text)
Subtitles(dialogue) ==
    [k \in 1..Len(dialogue) |->
        [index |-> k - 1, speaker |-> dialogue[k].speaker, text |-> dialogue[k].text]]

\* the loop over audio_files: clip_times = (start_time, duration, index)
RECURSIVE ClipTimesLoop(_, _, _, _)
ClipTimesLoop(audio_files, i, current_time, clip_times) ==
    IF i >= Len(audio_files) THEN clip_times
    ELSE ClipTimesLoop(audio_files, i + 1, current_time + audio_files[i + 1].duration,
             Append(clip_times,
                 [start_time |-> current_time, duration |-> audio_files[i + 1].duration, index |-> i]))

\* a timeline whose intervals start where they should end
ClipTimes_StartAfterAdvance(audio_files) ==
    LET right == ClipTimesLoop(audio_files, 0, 0, <<>>)
    IN  [k \in 1..Len(right) |->
            [right[k] EXCEPT !.start_time = right[k].start_time + right[k].duration]]

ClipTimes(audio_files) == ClipTimesLoop(audio_files, 0, 0, <<>>)

\* f"【{speaker}】\n{wrapped_text}"
DisplayText(sub) == <<"[">> \o sub.speaker \o <<"]", "N">> \o wrap_text(sub.text, WRAP_MAX_CHARS)

\* captions paired with the audio whatever the counts
CaptionsPaired_NoCountCheck(clip_times, subtitles) == subtitles # <<>>

\* the captions are paired with the audio only when the counts agree
CaptionsPaired(clip_times, subtitles) == subtitles # <<>> /\ Len(clip_times) = Len(subtitles)

TextClips(clip_times, subtitles, clip_fails) ==
    IF CaptionsPaired(clip_times, subtitles)
    THEN LET made == SelectSeq(clip_times,
                        LAMBDA c : c.index < Len(subtitles) /\ c.index \notin clip_fails)
         IN  [k \in 1..Len(made) |->
                 [text |-> DisplayText(subtitles[made[k].index + 1]),
                  start |-> made[k].start_time,
                  duration |-> made[k].duration,
                  index |-> made[k].index]]
    ELSE <<>>

\* the duration of the concatenated audio track
RECURSIVE TotalDuration(_)
TotalDuration(audio_files) ==
    IF audio_files = <<>> THEN 0
    ELSE Head(audio_files).duration + TotalDuration(Tail(audio_files))

create_podcast_video(audio_files, subtitles, clip_fails, output_filename) ==
    IF audio_files = <<>>
    THEN [result |-> "None", clip_times |-> <<>>, text_clips |-> <<>>, duration |-> 0, fps |-> 0]
    ELSE LET clip_times == ClipTimes(audio_files)
             text_clips == TextClips(clip_times, subtitles, clip_fails)
         IN  [result |-> output_filename,
              clip_times |-> clip_times,
              text_clips |-> text_clips,
              duration |-> TotalDuration(audio_files),
              fps |-> IF text_clips # <<>> THEN 24 ELSE 1]

(***************************************************************************)
(* State.                                                                  *)
(*                                                                         *)
(* v_*: one call of create_podcast_video (SpecVideo).                      *)
(* t_*: one parsed reply going through generate_paper_script's dialogue    *)
(*      processing, then process_script and create_podcast_video           *)
(*      (SpecText).                                                        *)
(* g_*: one call of a script generator with a retry loop (SpecGen).        *)
(* p_*: the runs of one daily pipeline and its working directory           *)
(*      (SpecPipe).                                                        *)
(* f_*: one call of a text function on its own (SpecFun).                  *)
(* b_*: one call of generate_bsd_script (SpecBsd).                         *)
(***************************************************************************)
VARIABLES v_pc, v_audio, v_dialogue, v_fails, v_out,
          t_pc, t_cfg, t_raw, t_dialogue, t_targets, t_batch_start, t_applied, t_tts, t_audio, t_out,
          g_pc, g_fn, g_ready, g_has_input, g_payload, g_requests, g_outcomes, g_content, g_result,
          g_reply, g_cleaned_dialogue,
          p_pc, p_pipeline, p_entry, p_run, p_gen, p_script_file, p_written, p_folder, p_sent,
          p_video, p_uploaded, p_end,
          f_pc, f_fn, f_text, f_max_chars, f_out,
          b_pc, b_ready, b_content, b_chunks, b_sections, b_dialogue, b_result,
          c_pc, c_auto_start, c_up, c_ready_cache, c_speaker_cache, c_calls, c_probes,
          c_returned_true, c_fetched_ok, c_last

videoVars == <<v_pc, v_audio, v_dialogue, v_fails, v_out>>
textVars == <<t_pc, t_cfg, t_raw, t_dialogue, t_targets, t_batch_start, t_applied, t_tts, t_audio, t_out>>
genVars == <<g_pc, g_fn, g_ready, g_has_input, g_payload, g_requests, g_outcomes, g_content, g_result,
             g_reply, g_cleaned_dialogue>>
pipeVars == <<p_pc, p_pipeline, p_entry, p_run, p_gen, p_script_file, p_written, p_folder, p_sent,
              p_video, p_uploaded, p_end>>
funVars == <<f_pc, f_fn, f_text, f_max_chars, f_out>>
bsdVars == <<b_pc, b_ready, b_content, b_chunks, b_sections, b_dialogue, b_result>>
cacheVars == <<c_pc, c_auto_start, c_up, c_ready_cache, c_speaker_cache, c_calls, c_probes,
               c_returned_true, c_fetched_ok, c_last>>
vars == <<videoVars, textVars, genVars, pipeVars, funVars, bsdVars, cacheVars>>

\* the module-level caches of audio_generator.py and lm_studio_utils.py in
\* a process that has not called anything yet
Services == {"voicevox", "lm_studio"}
PyNone == "None"
NoSpeakerCache == [is_none |-> TRUE, map |-> {}]
NoCall == [fn |-> "none", arg |-> "", ok |-> FALSE, id |-> 0, requests |-> 0, up |-> FALSE]

CacheIdle ==
    /\ c_pc = "off"
    /\ c_auto_start = [s \in Services |-> FALSE]
    /\ c_up = [s \in Services |-> FALSE]
    /\ c_ready_cache = [s \in Services |-> PyNone]
    /\ c_speaker_cache = NoSpeakerCache
    /\ c_calls = 0
    /\ c_probes = 0
    /\ c_returned_true = {}
    /\ c_fetched_ok = FALSE
    /\ c_last = NoCall

FunIdle ==
    /\ f_pc = "idle"
    /\ f_fn = "none"
    /\ f_text = <<>>
    /\ f_max_chars = 0
    /\ f_out = <<>>

BsdIdle ==
    /\ b_pc = "idle"
    /\ b_ready = FALSE
    /\ b_content = <<>>
    /\ b_chunks = <<>>
    /\ b_sections = <<>>
    /\ b_dialogue = <<>>
    /\ b_result = "none"

\* bounds of SpecVideo
MaxAudio == 3
MaxSubs == 3
MaxDuration == 2

OUTPUT_FILENAME == "final_video.mp4"
NoVideo == [result |-> "pending", clip_times |-> <<>>, text_clips |-> <<>>, duration |-> 0, fps |-> 0]

\* sequences over S of length 0..n
SeqsUpTo(S, n) == UNION {[1..k -> S] : k \in 0..n}

\* caption lines as the script generators write them
CaptionTexts == {<<"J", "J">>, Annotated(<<"W">>, <<"a">>)}
CaptionSpeakers == {<<"J">>}

VideoIdle ==
    /\ v_pc = "idle"
    /\ v_audio = <<>>
    /\ v_dialogue = <<>>
    /\ v_fails = {}
    /\ v_out = NoVideo

VideoInit ==
    /\ v_pc = "call"
    /\ v_audio \in SeqsUpTo([duration : 0..MaxDuration], MaxAudio)
    /\ v_dialogue \in SeqsUpTo([speaker : CaptionSpeakers, text : CaptionTexts], MaxSubs)
    /\ v_fails \in SUBSET (0..(MaxAudio - 1))
    /\ v_out = NoVideo

\* create_podcast_video(image_path, audio_folder, output_filename, script_file)
CreateVideo ==
    /\ v_pc = "call"
    /\ v_out' = create_podcast_video(v_audio, Subtitles(v_dialogue), v_fails, OUTPUT_FILENAME)
    /\ v_pc' = "returned"
    /\ UNCHANGED <<v_audio, v_dialogue, v_fails>>
    /\ UNCHANGED <<textVars, genVars, pipeVars, funVars, bsdVars, cacheVars>>

(***************************************************************************)
(* SpecText: generate_paper_script from the parsed reply on, then the      *)
(* audio phase and the video phase of the same run.                        *)
(***************************************************************************)
\* bounds of SpecText
MaxPieces == 3
MaxLines == 2
MaxReplyItems == 2
MaxCharsSmall == 3
MaxTtsFailures == 1
MaxClipFailures == 1

\* the defaults of PAPER_DIALOGUE_MAX_CHARS and LM_STUDIO_REWRITE_BATCH_SIZE
DIALOGUE_MAX_CHARS == 420
LM_STUDIO_REWRITE_BATCH_SIZE == 5

\* what a line of a model reply is built from
RawPieces == {<<"J">>, <<"a">>, <<"E">>, <<"(">>, <<")">>, <<" ">>, SkipOpen, SkipClose}

RECURSIVE TextsOf(_)
TextsOf(n) ==
    IF n = 0 THEN {<<>>}
    ELSE LET shorter == TextsOf(n - 1)
         IN  shorter \cup {t \o p : t \in shorter, p \in RawPieces}

\* the texts of the lines after the first
TailTexts == {<<"J">>, <<"a", "J">>, <<"J", "(", "a", ")">>}
RawSpeakers == {<<>>, <<"J", "J">>}

\* the texts a rewrite reply may hold
ReplyTexts == {Annotated(<<"J">>, <<"a">>), <<"a", " ", "J">>, <<"J", "(", "a", ")">>}

RawEntry(speaker, text) == [kind |-> "dict", speaker |-> speaker, text |-> text]

RawDialogues ==
    {<<RawEntry(sp, t)>> : sp \in RawSpeakers, t \in TextsOf(MaxPieces)}
    \cup UNION {
        {<<RawEntry(sp, t)>> \o rest : sp \in RawSpeakers, t \in TailTexts,
            rest \in [1..k -> {RawEntry(<<>>, u) : u \in TailTexts}]}
        : k \in 1..(MaxLines - 1)}

NoTextVideo == [result |-> "pending", clip_times |-> <<>>, text_clips |-> <<>>, duration |-> 0, fps |-> 0]

TextIdle ==
    /\ t_pc = "idle"
    /\ t_cfg = [max_chars |-> 0, batch_size |-> 0]
    /\ t_raw = <<>>
    /\ t_dialogue = <<>>
    /\ t_targets = <<>>
    /\ t_batch_start = 0
    /\ t_applied = {}
    /\ t_tts = <<>>
    /\ t_audio = <<>>
    /\ t_out = NoTextVideo

TextInit ==
    /\ t_pc = "parsed"
    /\ t_cfg \in [max_chars : {MaxCharsSmall, DIALOGUE_MAX_CHARS},
                  batch_size : {1, LM_STUDIO_REWRITE_BATCH_SIZE}]
    /\ t_raw \in RawDialogues
    /\ t_dialogue = <<>>
    /\ t_targets = <<>>
    /\ t_batch_start = 0
    /\ t_applied = {}
    /\ t_tts = <<>>
    /\ t_audio = <<>>
    /\ t_out = NoTextVideo

\* a cleaning loop without the "if text:" test
CleanedDialogue_KeepsEmpty(entries) ==
    LET kept == SelectSeq(entries, LAMBDA line : line.kind = "dict")
    IN  [k \in 1..Len(kept) |->
            [speaker |-> SpeakerOrDefault(kept[k].speaker),
             text |-> normalize_dialogue_text(kept[k].text)]]

\* the cleaning loop of generate_paper_script (also generate_script and
\* generate_github_script)
CleanedDialogue(entries) ==
    LET kept == SelectSeq(entries,
                    LAMBDA line : line.kind = "dict" /\ normalize_dialogue_text(line.text) # <<>>)
    IN  [k \in 1..Len(kept) |->
            [speaker |-> SpeakerOrDefault(kept[k].speaker),
             text |-> normalize_dialogue_text(kept[k].text)]]

CleanDialogue ==
    /\ t_pc = "parsed"
    /\ t_dialogue' = CleanedDialogue(t_raw)
    /\ t_pc' = "rewrite"
    /\ UNCHANGED <<t_cfg, t_raw, t_targets, t_batch_start, t_applied, t_tts, t_audio, t_out>>
    /\ UNCHANGED <<videoVars, genVars, pipeVars, funVars, bsdVars, cacheVars>>

\* rewrite_english_dialogue, the first loop: abbreviation readings, and the
\* queue of the lines that still hold a letter outside an annotation
AbbreviatedDialogue(dialogue) ==
    [k \in 1..Len(dialogue) |->
        [dialogue[k] EXCEPT !.text = apply_abbreviation_readings(dialogue[k].text)]]

RewriteTargets(dialogue) ==
    LET idx == SelectSeq([k \in 1..Len(dialogue) |-> k - 1],
                   LAMBDA i : HasBareEnglish(dialogue[i + 1].text))
    IN  [k \in 1..Len(idx) |-> [index |-> idx[k], text |-> dialogue[idx[k] + 1].text]]

RewriteQueue ==
    /\ t_pc = "rewrite"
    /\ t_dialogue' = AbbreviatedDialogue(t_dialogue)
    /\ t_targets' = RewriteTargets(t_dialogue')
    /\ t_batch_start' = 0
    /\ t_pc' = IF t_targets' = <<>> THEN "fallback" ELSE "batch"
    /\ UNCHANGED <<t_cfg, t_raw, t_applied, t_tts, t_audio, t_out>>
    /\ UNCHANGED <<videoVars, genVars, pipeVars, funVars, bsdVars, cacheVars>>

\* the items of a rewrite reply: a record {index, text}, its text a string
\* or not, or an element that is no record
ReplyItems(n) ==
    {[kind |-> "other", index |-> 0, text |-> <<>>]}
    \cup [kind : {"dict"}, index : (-1)..n, text : ReplyTexts]
    \cup [kind : {"dict_text_not_str"}, index : 0..(n - 1), text : {<<>>}]

\* a loop over the items that does not test isinstance(text, str)
RECURSIVE ApplyRewritten_NoTextCheck(_, _)
ApplyRewritten_NoTextCheck(dialogue, rewritten) ==
    IF rewritten = <<>> THEN dialogue
    ELSE LET item == Head(rewritten)
         IN  IF item.kind = "other" THEN dialogue
             ELSE IF 0 <= item.index /\ item.index < Len(dialogue)
                  THEN ApplyRewritten_NoTextCheck(
                           [dialogue EXCEPT ![item.index + 1].text = normalize_dialogue_text(item.text)],
                           Tail(rewritten))
                  ELSE ApplyRewritten_NoTextCheck(dialogue, Tail(rewritten))

\* the loop over the items of the reply; an element that is no record
\* raises, which ends the loop and keeps what was applied before it
RECURSIVE ApplyRewritten(_, _)
ApplyRewritten(dialogue, rewritten) ==
    IF rewritten = <<>> THEN dialogue
    ELSE LET item == Head(rewritten)
         IN  IF item.kind = "other" THEN dialogue
             ELSE IF item.kind = "dict" /\ 0 <= item.index /\ item.index < Len(dialogue)
                  THEN ApplyRewritten(
                           [dialogue EXCEPT ![item.index + 1].text = normalize_dialogue_text(item.text)],
                           Tail(rewritten))
                  ELSE ApplyRewritten(dialogue, Tail(rewritten))

\* the indices whose line the loop over the items assigned
RECURSIVE AppliedIndices(_, _)
AppliedIndices(n, rewritten) ==
    IF rewritten = <<>> THEN {}
    ELSE LET item == Head(rewritten)
         IN  IF item.kind = "other" THEN {}
             ELSE IF item.kind = "dict" /\ 0 <= item.index /\ item.index < n
                  THEN {item.index} \cup AppliedIndices(n, Tail(rewritten))
                  ELSE AppliedIndices(n, Tail(rewritten))

BatchSize(cfg) == IF cfg.batch_size > 1 THEN cfg.batch_size ELSE 1

\* one iteration of the batch loop of rewrite_english_dialogue
RewriteBatch ==
    /\ t_pc = "batch"
    /\ \/ \* the request, the extraction or json.loads raises, or the reply is no list
          t_dialogue' = t_dialogue /\ t_applied' = {}
       \/ \E rewritten \in SeqsUpTo(ReplyItems(Len(t_dialogue)), MaxReplyItems) :
              /\ t_dialogue' = ApplyRewritten(t_dialogue, rewritten)
              /\ t_applied' = AppliedIndices(Len(t_dialogue), rewritten)
    /\ t_batch_start' = t_batch_start + BatchSize(t_cfg)
    /\ t_pc' = IF t_batch_start' < Len(t_targets) THEN "batch" ELSE "fallback"
    /\ UNCHANGED <<t_cfg, t_raw, t_targets, t_tts, t_audio, t_out>>
    /\ UNCHANGED <<videoVars, genVars, pipeVars, funVars, bsdVars, cacheVars>>

\* generate_paper_script, the loop after rewrite_english_dialogue
FallbackDialogue(dialogue) ==
    [k \in 1..Len(dialogue) |->
        IF HasBareEnglish(dialogue[k].text)
        THEN [dialogue[k] EXCEPT !.text = normalize_dialogue_text(fallback_wrap_english(dialogue[k].text))]
        ELSE dialogue[k]]

FallbackStep ==
    /\ t_pc = "fallback"
    /\ t_dialogue' = FallbackDialogue(t_dialogue)
    /\ t_applied' = {}
    /\ t_pc' = "split"
    /\ UNCHANGED <<t_cfg, t_raw, t_targets, t_batch_start, t_tts, t_audio, t_out>>
    /\ UNCHANGED <<videoVars, genVars, pipeVars, funVars, bsdVars, cacheVars>>

\* script_data["dialogue"] = split_dialogue_lines(rewritten_dialogue, DIALOGUE_MAX_CHARS)
SplitStep ==
    /\ t_pc = "split"
    /\ t_dialogue' = split_dialogue_lines(t_dialogue, t_cfg.max_chars)
    /\ t_pc' = "audio"
    /\ UNCHANGED <<t_cfg, t_raw, t_targets, t_batch_start, t_applied, t_tts, t_audio, t_out>>
    /\ UNCHANGED <<videoVars, genVars, pipeVars, funVars, bsdVars, cacheVars>>

\* one iteration of the loop of process_script: generate_audio_file sends
\* normalize_tts_text(text) to /audio_query; a file is written on success
ProcessLine ==
    /\ t_pc = "audio"
    /\ Len(t_tts) < Len(t_dialogue)
    /\ LET i == Len(t_tts)
       IN  /\ t_tts' = Append(t_tts, normalize_tts_text(t_dialogue[i + 1].text))
           /\ \/ t_audio' = Append(t_audio, [index |-> i, duration |-> 1])
              \/ /\ Len(t_tts) - Len(t_audio) < MaxTtsFailures
                 /\ t_audio' = t_audio
    /\ UNCHANGED <<t_pc, t_cfg, t_raw, t_dialogue, t_targets, t_batch_start, t_applied, t_out>>
    /\ UNCHANGED <<videoVars, genVars, pipeVars, funVars, bsdVars, cacheVars>>

\* generate_daily_video after process_script returned
RenderVideo ==
    /\ t_pc = "audio"
    /\ Len(t_tts) = Len(t_dialogue)
    /\ IF t_audio = <<>>
       THEN t_pc' = "failed" /\ t_out' = t_out
       ELSE /\ t_pc' = "rendered"
            /\ \E fails \in {f \in SUBSET (0..(Len(t_audio) - 1)) : Cardinality(f) <= MaxClipFailures} :
                  t_out' = create_podcast_video(t_audio, Subtitles(t_dialogue), fails, OUTPUT_FILENAME)
    /\ UNCHANGED <<t_cfg, t_raw, t_dialogue, t_targets, t_batch_start, t_applied, t_tts, t_audio>>
    /\ UNCHANGED <<videoVars, genVars, pipeVars, funVars, bsdVars, cacheVars>>

(***************************************************************************)
(* SpecRewrite: rewrite_english_dialogue alone, on a cleaned dialogue.     *)
(***************************************************************************)
\* the dialogues of one line and of two lines, made of a line without a
\* Latin letter, two lines with one, and a line with an abbreviation
RewriteInputs ==
    LET lines == {RawEntry(<<"J">>, <<"J">>), RawEntry(<<"W">>, <<"a">>),
                  RawEntry(<<"J">>, <<"a">>), RawEntry(<<"W">>, <<"E">>)}
    IN  {<<l>> : l \in lines} \cup {<<l, m>> : l \in lines, m \in lines}

\* the call rewrite_english_dialogue(cleaned_dialogue)
RewriteInit ==
    /\ t_pc = "rewrite"
    /\ t_cfg \in [max_chars : {DIALOGUE_MAX_CHARS}, batch_size : {1, LM_STUDIO_REWRITE_BATCH_SIZE}]
    /\ t_raw \in RewriteInputs
    /\ t_dialogue = CleanedDialogue(t_raw)
    /\ t_targets = <<>>
    /\ t_batch_start = 0
    /\ t_applied = {}
    /\ t_tts = <<>>
    /\ t_audio = <<>>
    /\ t_out = NoTextVideo

(***************************************************************************)
(* SpecGen: one call of generate_script, generate_paper_script or          *)
(* generate_github_script: the early returns, then the retry loop.         *)
(***************************************************************************)
max_retries == 3

Generators == {"generate_script", "generate_paper_script", "generate_github_script"}

\* the payload built before the loop from the topic, the papers or the
\* activities of the call
Payloads == {"payload_1", "payload_2"}

\* what one attempt meets, in the order of the statements of the try block:
\*   request_error             requests.post or raise_for_status raises
\*   body_not_json             response.json() raises json.JSONDecodeError
\*   no_content                result['choices'][0]['message']['content'] raises
\*   content_null              content is None, content.replace raises
\*   content_not_json          json.loads(content) raises json.JSONDecodeError
\*   json_not_object           script_data.get raises
\*   object_no_dialogue        an object without "dialogue"
\*   object_dialogue_not_list  an object whose "dialogue" is no list
\*   object_dialogue_list      an object whose "dialogue" is a list
\*   dialogue_text_not_str     an object whose "dialogue" is a list that holds
\*                             a record with a "text" that is no string and
\*                             not falsy: normalize_dialogue_text raises
JsonDecodeErrors == {"body_not_json", "content_not_json"}
OtherExceptions == {"request_error", "no_content", "content_null", "json_not_object", "dialogue_text_not_str"}
ParsedObjects == {"object_no_dialogue", "object_dialogue_not_list", "object_dialogue_list"}
AttemptOutcomes == JsonDecodeErrors \cup OtherExceptions \cup ParsedObjects

\* the local variable content after the attempt: unbound until line
\* content = result[...] has run once
ContentAfter(content, outcome) ==
    IF outcome \in {"request_error", "body_not_json", "no_content"} THEN content
    ELSE IF outcome = "content_null" THEN "none"
    ELSE "str"

\* print("Raw response:", content) in generate_script, content[:500] in the
\* other two: whether the statement runs without raising
RawResponsePrintable(fn, content) ==
    IF fn = "generate_script" THEN content # "unbound" ELSE content = "str"

\* the shape of "dialogue" in the object the call returns
DialogueShape(outcome) ==
    IF outcome = "object_dialogue_list" THEN "list"
    ELSE IF outcome = "object_dialogue_not_list" THEN "not_list"
    ELSE "missing"

NoResult == [value |-> "pending", dialogue |-> "none"]
ReturnNone == [value |-> "None", dialogue |-> "none"]
ReturnScriptData(outcome) == [value |-> "script_data", dialogue |-> DialogueShape(outcome)]

\* bound of SpecGen
MaxReplyEntries == 2

\* the elements of script_data["dialogue"]: a record with its speaker (<<>>
\* when absent or empty) and its text (<<>> when absent, null or empty), a
\* record whose text is no string and not falsy, or an element that is no
\* record
ReplyEntries ==
    {RawEntry(<<>>, <<>>),
     RawEntry(<<"J", "J">>, <<" ">>),
     RawEntry(<<>>, <<"J">>),
     RawEntry(<<"J", "J">>, <<" ", "J", " ", "J">>),
     [kind |-> "dict_text_not_str", speaker |-> <<>>, text |-> <<>>],
     [kind |-> "other", speaker |-> <<>>, text |-> <<>>]}

\* the cleaning loop reaches a record whose text makes normalize_dialogue_text raise
TextRaises(reply) == \E k \in 1..Len(reply) : reply[k].kind = "dict_text_not_str"

ReplyDialogues(outcome) ==
    IF outcome = "object_dialogue_list"
    THEN {r \in SeqsUpTo(ReplyEntries, MaxReplyEntries) : ~TextRaises(r)}
    ELSE IF outcome = "dialogue_text_not_str"
    THEN {r \in SeqsUpTo(ReplyEntries, MaxReplyEntries) : TextRaises(r)}
    ELSE {<<>>}

GenIdle ==
    /\ g_pc = "idle"
    /\ g_fn = "none"
    /\ g_ready = FALSE
    /\ g_has_input = FALSE
    /\ g_payload = "none"
    /\ g_requests = <<>>
    /\ g_outcomes = <<>>
    /\ g_content = "unbound"
    /\ g_result = NoResult
    /\ g_reply = <<>>
    /\ g_cleaned_dialogue = <<>>

GenInit ==
    /\ g_pc = "call"
    /\ g_fn \in Generators
    /\ g_ready \in BOOLEAN
    /\ g_has_input \in BOOLEAN
    /\ (g_fn # "generate_github_script" => g_has_input)
    /\ g_payload \in Payloads
    /\ g_requests = <<>>
    /\ g_outcomes = <<>>
    /\ g_content = "unbound"
    /\ g_result = NoResult
    /\ g_reply = <<>>
    /\ g_cleaned_dialogue = <<>>

\* if not ensure_lm_studio_ready(): return None; in generate_github_script
\* also the return when there is no activity and no commit
GenEnter ==
    /\ g_pc = "call"
    /\ IF g_ready /\ g_has_input
       THEN g_pc' = "loop" /\ g_result' = g_result
       ELSE g_pc' = "returned" /\ g_result' = ReturnNone
    /\ UNCHANGED <<g_fn, g_ready, g_has_input, g_payload, g_requests, g_outcomes, g_content,
                   g_reply, g_cleaned_dialogue>>
    /\ UNCHANGED <<videoVars, textVars, pipeVars, funVars, bsdVars, cacheVars>>

\* one iteration of for attempt in range(max_retries)
GenAttempt ==
    /\ g_pc = "loop"
    /\ Len(g_outcomes) < max_retries
    /\ \E outcome \in AttemptOutcomes : \E reply \in ReplyDialogues(outcome) :
        LET attempt == Len(g_outcomes)
            content == ContentAfter(g_content, outcome)
        IN  /\ g_requests' = Append(g_requests, g_payload)
            /\ g_outcomes' = Append(g_outcomes, outcome)
            /\ g_content' = content
            /\ g_reply' = reply
            /\ g_cleaned_dialogue' = IF outcome = "object_dialogue_list" THEN CleanedDialogue(reply) ELSE <<>>
            /\ IF outcome \in ParsedObjects
               THEN g_pc' = "returned" /\ g_result' = ReturnScriptData(outcome)
               ELSE IF attempt < max_retries - 1
               THEN g_pc' = "loop" /\ g_result' = g_result
               ELSE IF outcome \in JsonDecodeErrors /\ ~RawResponsePrintable(g_fn, content)
               THEN g_pc' = "raised" /\ g_result' = g_result
               ELSE g_pc' = "returned" /\ g_result' = ReturnNone
    /\ UNCHANGED <<g_fn, g_ready, g_has_input, g_payload>>
    /\ UNCHANGED <<videoVars, textVars, pipeVars, funVars, bsdVars, cacheVars>>

(***************************************************************************)
(* SpecPipe: successive runs of one daily pipeline (generate_daily_video,  *)
(* generate_github_video or generate_bsd_video) in one working directory,  *)
(* each started through a command-line entry point.                        *)
(***************************************************************************)
\* bounds of SpecPipe
MaxRuns == 2
MaxScriptLines == 2

Pipelines == {"paper", "github", "bsd"}

\* run_once (--once, --tomorrow, the default of daily_bsd_video.py),
\* run_service, and --url of daily_bsd_video.py
EntryPoints(pipeline) ==
    IF pipeline = "bsd" THEN {"run_once", "url"} ELSE {"run_once", "run_service"}

\* run_once and run_service call cleanup_temp_files() first; the --url
\* branch calls generate_bsd_video directly
CleansUp(entry) == entry # "url"

PipeSpeakers == {<<"J">>, <<"J", "J">>}
PipeLines == [speaker : PipeSpeakers, text : {<<"J">>}]

\* what the script generator of the pipeline hands back
NoScript == [value |-> "pending", shape |-> "none", dialogue |-> <<>>]
GeneratorNone == [value |-> "None", shape |-> "none", dialogue |-> <<>>]
GeneratorRaised == [value |-> "raised", shape |-> "none", dialogue |-> <<>>]
GeneratorResults(pipeline) ==
    {GeneratorNone, GeneratorRaised}
    \cup [value : {"script_data"}, shape : {"list"}, dialogue : SeqsUpTo(PipeLines, MaxScriptLines)]
    \cup (IF pipeline = "bsd" THEN {}
          ELSE [value : {"script_data"}, shape : {"missing", "not_list"}, dialogue : {<<>>}])

\* if not script_data: return
StopsAfterGeneration(script_data) == script_data.value = "None"

\* data.get("dialogue", []) of process_script
DialogueOfFile(script_file) ==
    IF script_file.shape = "list" THEN script_file.dialogue ELSE <<>>

\* safe_speaker_filename: the order of the speaker part of the file names
SafeSpeakerOrder(speaker) == Len(speaker)

\* os.path.join(output_dir, f"{i:03d}_{safe_speaker}.wav"), written on success
AudioFile(i, speaker, run) == [index |-> i, speaker |-> speaker, run |-> run, duration |-> 1]
SameName(f, g) == f.index = g.index /\ f.speaker = g.speaker

\* the files process_script writes: one per line whose synthesis succeeds
WrittenFiles(dialogue, failed, run) ==
    {AudioFile(k - 1, dialogue[k].speaker, run) : k \in {j \in 1..Len(dialogue) : (j - 1) \notin failed}}

\* the folder after the writes: a file of the same name is replaced
FolderAfter(folder, written) ==
    {f \in folder : \A g \in written : ~SameName(f, g)} \cup written

NameBefore(f, g) ==
    \/ f.index < g.index
    \/ f.index = g.index /\ SafeSpeakerOrder(f.speaker) < SafeSpeakerOrder(g.speaker)

\* sorted(glob.glob(os.path.join(audio_folder, "*.wav")))
RECURSIVE SortedFiles(_)
SortedFiles(folder) ==
    IF folder = {} THEN <<>>
    ELSE LET first == CHOOSE f \in folder : \A g \in folder \ {f} : NameBefore(f, g)
         IN  <<first>> \o SortedFiles(folder \ {first})

NoPipeVideo == [out |-> NoVideo, audio_files |-> <<>>]

PipeIdle ==
    /\ p_pc = "off"
    /\ p_pipeline = "none"
    /\ p_entry = "none"
    /\ p_run = 0
    /\ p_gen = NoScript
    /\ p_script_file = NoScript
    /\ p_written = FALSE
    /\ p_folder = {}
    /\ p_sent = 0
    /\ p_video = NoPipeVideo
    /\ p_uploaded = FALSE
    /\ p_end = "none"

PipeInit ==
    /\ p_pc = "idle"
    /\ p_pipeline \in Pipelines
    /\ p_entry = "none"
    /\ p_run = 0
    /\ p_gen = NoScript
    /\ p_script_file = NoScript
    /\ p_written = FALSE
    /\ p_folder = {}
    /\ p_sent = 0
    /\ p_video = NoPipeVideo
    /\ p_uploaded = FALSE
    /\ p_end = "none"

\* __main__: the entry point, with or without cleanup_temp_files(), then
\* the fetch phase of the pipeline, which returns when it finds nothing
EnterRun ==
    /\ p_pc = "idle"
    /\ p_run < MaxRuns
    /\ \E entry \in EntryPoints(p_pipeline), found \in BOOLEAN :
        /\ p_entry' = entry
        /\ p_folder' = IF CleansUp(entry) THEN {} ELSE p_folder
        /\ p_script_file' = IF CleansUp(entry) THEN NoScript ELSE p_script_file
        /\ p_pc' = IF found THEN "generate" ELSE "idle"
        /\ p_end' = IF found THEN "running" ELSE "nothing_found"
    /\ p_run' = p_run + 1
    /\ p_gen' = NoScript
    /\ p_written' = FALSE
    /\ p_sent' = 0
    /\ p_video' = NoPipeVideo
    /\ p_uploaded' = FALSE
    /\ UNCHANGED p_pipeline
    /\ UNCHANGED <<videoVars, textVars, genVars, funVars, bsdVars, cacheVars>>

\* script_data = generate_..._script(...); if not script_data: return;
\* json.dump(script_data, f)
GenerateScript ==
    /\ p_pc = "generate"
    /\ \E script_data \in GeneratorResults(p_pipeline) :
        /\ p_gen' = script_data
        /\ IF script_data.value = "raised"
           THEN p_pc' = "idle" /\ p_end' = "raised"
                /\ UNCHANGED <<p_script_file, p_written>>
           ELSE IF StopsAfterGeneration(script_data)
           THEN p_pc' = "idle" /\ p_end' = "no_script"
                /\ UNCHANGED <<p_script_file, p_written>>
           ELSE p_pc' = "audio" /\ p_end' = p_end
                /\ p_script_file' = script_data /\ p_written' = TRUE
    /\ UNCHANGED <<p_pipeline, p_entry, p_run, p_folder, p_sent, p_video, p_uploaded>>
    /\ UNCHANGED <<videoVars, textVars, genVars, funVars, bsdVars, cacheVars>>

\* audio_paths = process_script(script_file, audio_folder);
\* if not audio_paths: return
ProcessScript ==
    /\ p_pc = "audio"
    /\ \E voicevox_ready \in BOOLEAN :
        LET dialogues == DialogueOfFile(p_script_file)
        IN  IF ~voicevox_ready
            THEN p_pc' = "idle" /\ p_end' = "no_audio" /\ UNCHANGED <<p_folder, p_sent>>
            ELSE IF p_script_file.shape = "not_list"
            THEN \* a string or null "dialogue": the loop raises at its first
                 \* element, or finds none
                 /\ p_pc' = "idle"
                 /\ p_end' \in {"raised", "no_audio"}
                 /\ UNCHANGED <<p_folder, p_sent>>
            ELSE \E failed \in SUBSET (0..(Len(dialogues) - 1)) :
                    LET audio_files == WrittenFiles(dialogues, failed, p_run)
                    IN  /\ p_folder' = FolderAfter(p_folder, audio_files)
                        /\ p_sent' = Len(dialogues)
                        /\ IF audio_files = {}
                           THEN p_pc' = "idle" /\ p_end' = "no_audio"
                           ELSE p_pc' = "video" /\ p_end' = p_end
    /\ UNCHANGED <<p_pipeline, p_entry, p_run, p_gen, p_script_file, p_written, p_video, p_uploaded>>
    /\ UNCHANGED <<videoVars, textVars, genVars, funVars, bsdVars, cacheVars>>

\* final_video = create_podcast_video(thumbnail_path, audio_folder,
\* video_path, script_file=script_file); if not final_video: return
MakeVideo ==
    /\ p_pc = "video"
    /\ LET audio_files == SortedFiles(p_folder)
           out == create_podcast_video(audio_files, Subtitles(DialogueOfFile(p_script_file)),
                                       {}, OUTPUT_FILENAME)
       IN  /\ p_video' = [out |-> out, audio_files |-> audio_files]
           /\ IF out.result = "None"
              THEN p_pc' = "idle" /\ p_end' = "no_video"
              ELSE p_pc' = "upload" /\ p_end' = p_end
    /\ UNCHANGED <<p_pipeline, p_entry, p_run, p_gen, p_script_file, p_written, p_folder, p_sent, p_uploaded>>
    /\ UNCHANGED <<videoVars, textVars, genVars, funVars, bsdVars, cacheVars>>

\* upload_video(...) inside try/except; return final_video
Upload ==
    /\ p_pc = "upload"
    /\ p_uploaded' \in BOOLEAN
    /\ p_pc' = "idle"
    /\ p_end' = "finished"
    /\ UNCHANGED <<p_pipeline, p_entry, p_run, p_gen, p_script_file, p_written, p_folder, p_sent, p_video>>
    /\ UNCHANGED <<videoVars, textVars, genVars, funVars, bsdVars, cacheVars>>

(***************************************************************************)
(* SpecBsd: generate_bsd_script, one step per chunk of the article.        *)
(***************************************************************************)
\* bounds of SpecBsd; BSD_MAX_CHARS stands for max_chars=1500
BSD_MAX_CHARS == 3
MaxSectionLines == 2

\* article_data['content']
BsdContents ==
    {<<"J">>,
     <<"J", "N", "N", "J">>,
     <<"J", "J", "J", "J">>,
     <<"J", "J", "N", "N", "J", "J", "N", "N", "J">>}

\* the elements of the "dialogue" of a section reply: a record with a text
\* (<<>> for "" and null), a record without "text", a record whose text is
\* no string, an element that is no record
SectionEntries ==
    {RawEntry(<<"J", "J">>, t) : t \in {<<>>, <<" ">>, <<"J">>, <<"J", " ", " ", "J">>}}
    \cup {[kind |-> k, speaker |-> <<>>, text |-> <<>>] : k \in {"dict_no_text", "dict_text_not_str", "other"}}

\* what generate_section_script returns: [] after any exception, or
\* data.get("dialogue", []), a list or not
SectionResults ==
    {[failed |-> TRUE, is_list |-> TRUE, dialogue |-> <<>>],
     [failed |-> FALSE, is_list |-> FALSE, dialogue |-> <<>>]}
    \cup [failed : {FALSE}, is_list : {TRUE}, dialogue : SeqsUpTo(SectionEntries, MaxSectionLines)]

\* for line in dialogue_part: line['text'] = normalize_dialogue_text(line['text'])
\* raises KeyError or TypeError
SectionNormalizationRaises(part) ==
    \/ ~part.is_list
    \/ \E k \in 1..Len(part.dialogue) : part.dialogue[k].kind # "dict"

NormalizedPart(dialogue) ==
    [k \in 1..Len(dialogue) |->
        [speaker |-> dialogue[k].speaker, text |-> bsd_normalize_dialogue_text(dialogue[k].text)]]

SectionType(i, n) == IF i = 0 THEN "intro" ELSE IF i = n - 1 THEN "outro" ELSE "middle"

BsdInit ==
    /\ b_pc = "call"
    /\ b_ready \in BOOLEAN
    /\ b_content \in BsdContents
    /\ b_chunks = <<>>
    /\ b_sections = <<>>
    /\ b_dialogue = <<>>
    /\ b_result = "none"

\* ensure_lm_studio_ready(), then chunk_text(content, max_chars=1500)
BsdEnter ==
    /\ b_pc = "call"
    /\ IF b_ready
       THEN /\ b_chunks' = chunk_text(b_content, BSD_MAX_CHARS)
            /\ b_pc' = "sections"
            /\ b_result' = b_result
       ELSE /\ b_chunks' = b_chunks
            /\ b_pc' = "returned"
            /\ b_result' = "None"
    /\ UNCHANGED <<b_ready, b_content, b_sections, b_dialogue>>
    /\ UNCHANGED <<videoVars, textVars, genVars, pipeVars, funVars, cacheVars>>

\* one pass of "for i, chunk in enumerate(chunks)"; the pass over the last
\* chunk ends with the return statement
BsdSection ==
    /\ b_pc = "sections"
    /\ Len(b_sections) < Len(b_chunks)
    /\ \E part \in SectionResults :
        LET i == Len(b_sections)
        IN  /\ b_sections' = Append(b_sections,
                                [section_type |-> SectionType(i, Len(b_chunks)),
                                 failed |-> part.failed,
                                 lines |-> Len(part.dialogue)])
            /\ IF SectionNormalizationRaises(part)
               THEN /\ b_pc' = "raised"
                    /\ b_result' = "raised"
                    /\ b_dialogue' = b_dialogue
               ELSE /\ b_dialogue' = b_dialogue \o NormalizedPart(part.dialogue)
                    /\ IF i = Len(b_chunks) - 1
                       THEN b_pc' = "returned" /\ b_result' = "script"
                       ELSE b_pc' = "sections" /\ b_result' = b_result
    /\ UNCHANGED <<b_ready, b_content, b_chunks>>
    /\ UNCHANGED <<videoVars, textVars, genVars, pipeVars, funVars, cacheVars>>

(***************************************************************************)
(* SpecFun: one call of a text function on a bounded input; the two        *)
(* normalizers are applied a second time to their own result.              *)
(***************************************************************************)
\* bounds of SpecFun: the length of the input text and the largest max_chars
MaxNormLen == 5
MaxTtsLen == 5
MaxChunkLen == 7
MaxChunkChars == 3
MaxSplitLen == 5
MaxSplitChars == 3
MaxAbbrPieces == 3
MaxSpanPieces == 2

Normalizers == {"normalize_dialogue_text", "normalize_tts_text"}

\* a reply: commentary without a brace, opening fence or none, object,
\* closing fence or none, commentary.  The objects: empty, with a member,
\* nested, with two nested members, and two with a string that holds a
\* fence marker
ReplyParts ==
    LET commentary == {<<>>, <<"J", " ">>, <<" ", "J">>, <<"~", "J", "j", " ">>}
        objects == {<<"{", "}">>,
                    <<"{", "J", "}">>,
                    <<"{", "J", "{", "J", "}", "}">>,
                    <<"{", "{", "}", "J", "{", "}", "}">>,
                    <<"{", "J", "~", "~", "~", "J", "}">>,
                    <<"{", "~", "~", "~", "j", "J", "~", "~", "~", "}">>}
    IN  {<<pre, open, object, close, post>> :
            pre \in commentary, open \in {<<>>, Fence, FenceJson}, object \in objects,
            close \in {<<>>, Fence}, post \in commentary}

\* the input texts of a function:
\*   normalize_dialogue_text  native characters, Latin letters, digits,
\*                            whitespace, punctuation and brackets
\*   normalize_tts_text       politeness markers, their separators, others
\*   chunk_text               characters and newlines
\*   the other splitters      characters, whitespace, a sentence end and a
\*                            soft break
\*   extract_json_object      the parts of a reply: commentary, opening
\*                            fence, object, closing fence, commentary
\*   split_dialogue_lines     these, and lines made of native characters,
\*                            a soft break and annotated Latin tokens
\*   apply_abbreviation_readings   native characters, the abbreviation, a
\*                            letter, and the abbreviation as reading plus
\*                            annotation-wrapped original
FunTexts(fn) ==
    IF fn = "normalize_dialogue_text"
    THEN SeqsUpTo({"J", "a", "1", " ", ".", "(", ")"}, MaxNormLen)
    ELSE IF fn = "normalize_tts_text"
    THEN SeqsUpTo(HONORIFIC \cup HONORIFIC_SEPARATOR \cup {"J"}, MaxTtsLen)
    ELSE IF fn = "chunk_text"
    THEN SeqsUpTo({"J", "N"}, MaxChunkLen)
    ELSE IF fn = "extract_json_object"
    THEN ReplyParts
    ELSE IF fn = "apply_abbreviation_readings"
    THEN {FlattenSeq(pieces) :
            pieces \in SeqsUpTo({<<"J">>, <<"E">>, <<"a">>, <<"R">>, Annotated(<<"R">>, <<"E">>)},
                                MaxAbbrPieces)}
    ELSE IF fn = "split_dialogue_lines"
    THEN SeqsUpTo({"J", " ", ".", ","}, MaxSplitLen)
         \cup {FlattenSeq(pieces) :
                 pieces \in SeqsUpTo({<<"J">>, <<",">>, Annotated(<<"W">>, <<"a">>)}, MaxSpanPieces)}
    ELSE SeqsUpTo({"J", " ", ".", ","}, MaxSplitLen)

FunMaxChars(fn) ==
    IF fn \in Normalizers \cup {"extract_json_object", "apply_abbreviation_readings"} THEN {0}
    ELSE IF fn = "chunk_text" THEN 1..MaxChunkChars
    ELSE 1..MaxSplitChars

FunInit ==
    /\ f_pc = "call"
    /\ f_fn \in Normalizers \cup {"chunk_text", "split_long_text", "force_split", "split_dialogue_lines",
                                  "extract_json_object", "apply_abbreviation_readings"}
    /\ f_text \in FunTexts(f_fn)
    /\ f_max_chars \in FunMaxChars(f_fn)
    /\ f_out = <<>>

\* f_out is the sequence of the results of a normalizer, the sequence of
\* the pieces of a splitter
CallNormalizeDialogueText ==
    /\ f_pc = "call"
    /\ f_fn = "normalize_dialogue_text"
    /\ f_out' = <<normalize_dialogue_text(f_text)>>
    /\ f_pc' = "returned"
    /\ UNCHANGED <<f_fn, f_text, f_max_chars>>
    /\ UNCHANGED <<videoVars, textVars, genVars, pipeVars, bsdVars, cacheVars>>

CallNormalizeTtsText ==
    /\ f_pc = "call"
    /\ f_fn = "normalize_tts_text"
    /\ f_out' = <<normalize_tts_text(f_text)>>
    /\ f_pc' = "returned"
    /\ UNCHANGED <<f_fn, f_text, f_max_chars>>
    /\ UNCHANGED <<videoVars, textVars, genVars, pipeVars, bsdVars, cacheVars>>

\* the normalizer is called on its own result
NormalizeAgain ==
    /\ f_pc = "returned"
    /\ f_fn \in Normalizers
    /\ f_out' = Append(f_out, IF f_fn = "normalize_dialogue_text"
                              THEN normalize_dialogue_text(f_out[1])
                              ELSE normalize_tts_text(f_out[1]))
    /\ f_pc' = "reapplied"
    /\ UNCHANGED <<f_fn, f_text, f_max_chars>>
    /\ UNCHANGED <<videoVars, textVars, genVars, pipeVars, bsdVars, cacheVars>>

CallChunkText ==
    /\ f_pc = "call"
    /\ f_fn = "chunk_text"
    /\ f_out' = chunk_text(f_text, f_max_chars)
    /\ f_pc' = "returned"
    /\ UNCHANGED <<f_fn, f_text, f_max_chars>>
    /\ UNCHANGED <<videoVars, textVars, genVars, pipeVars, bsdVars, cacheVars>>

CallSplitLongText ==
    /\ f_pc = "call"
    /\ f_fn = "split_long_text"
    /\ f_out' = split_long_text(f_text, f_max_chars)
    /\ f_pc' = "returned"
    /\ UNCHANGED <<f_fn, f_text, f_max_chars>>
    /\ UNCHANGED <<videoVars, textVars, genVars, pipeVars, bsdVars, cacheVars>>

CallForceSplit ==
    /\ f_pc = "call"
    /\ f_fn = "force_split"
    /\ f_out' = force_split(f_text, f_max_chars)
    /\ f_pc' = "returned"
    /\ UNCHANGED <<f_fn, f_text, f_max_chars>>
    /\ UNCHANGED <<videoVars, textVars, genVars, pipeVars, bsdVars, cacheVars>>

\* the extraction on the reply made of the parts of f_text
CallExtractJsonObject ==
    /\ f_pc = "call"
    /\ f_fn = "extract_json_object"
    /\ f_out' = <<ExtractJsonObject(FlattenSeq(f_text))>>
    /\ f_pc' = "returned"
    /\ UNCHANGED <<f_fn, f_text, f_max_chars>>
    /\ UNCHANGED <<videoVars, textVars, genVars, pipeVars, bsdVars, cacheVars>>

\* split_dialogue_lines on a dialogue of one line; f_out holds the texts
CallSplitDialogueLines ==
    /\ f_pc = "call"
    /\ f_fn = "split_dialogue_lines"
    /\ LET lines == split_dialogue_lines(<<[speaker |-> <<>>, text |-> f_text]>>, f_max_chars)
       IN  f_out' = [k \in 1..Len(lines) |-> lines[k].text]
    /\ f_pc' = "returned"
    /\ UNCHANGED <<f_fn, f_text, f_max_chars>>
    /\ UNCHANGED <<videoVars, textVars, genVars, pipeVars, bsdVars, cacheVars>>

CallApplyAbbreviationReadings ==
    /\ f_pc = "call"
    /\ f_fn = "apply_abbreviation_readings"
    /\ f_out' = <<apply_abbreviation_readings(f_text)>>
    /\ f_pc' = "returned"
    /\ UNCHANGED <<f_fn, f_text, f_max_chars>>
    /\ UNCHANGED <<videoVars, textVars, genVars, pipeVars, bsdVars, cacheVars>>

(***************************************************************************)
(* SpecCache: one process calling ensure_voicevox_ready,                   *)
(* ensure_lm_studio_ready and resolve_speaker_id while the servers go up   *)
(* and down.                                                               *)
(***************************************************************************)
\* bounds of SpecCache: the calls of a process and the polls of one startup
\* wait (STARTUP_TIMEOUT / STARTUP_POLL)
MaxCalls == 3
MaxPolls == 2

\* SPEAKERS, DEFAULT_SPEAKER_NAME and DEFAULT_SPEAKER_ID of audio_generator.py
SPEAKERS == {<<"zundamon", 3>>, <<"metan", 2>>}
AudioDefaultSpeakerName == "ryusei"
DEFAULT_SPEAKER_ID == 3

\* pick_default_style_id(styles) of a speaker without styles
NoStyle == 0 - 1

\* the reply of GET /speakers, with the result of pick_default_style_id
\* for each element: a speaker without a name and one without styles
ServerSpeakers ==
    <<[name |-> "ryusei", style_id |-> 13],
      [name |-> "", style_id |-> 5],
      [name |-> "tsumugi", style_id |-> 8],
      [name |-> "himari", style_id |-> NoStyle]>>

\* speaker_name of resolve_speaker_id: empty, a name of SPEAKERS, names of
\* the server and a name nobody knows
SpeakerNames == {"", "zundamon", "ryusei", "tsumugi", "himari", "nobody"}

\* the fetch of load_voicevox_speakers: it succeeds, or an exception ends
\* it after "read" elements of the reply were handled (0: the request, the
\* status or the JSON failed).  A server that is down only fails.
Fetches(up) ==
    [ok : {FALSE}, read : {0}]
    \cup (IF up THEN [ok : {TRUE}, read : {Len(ServerSpeakers)}]
                     \cup [ok : {FALSE}, read : 0..(Len(ServerSpeakers) - 1)]
          ELSE {})

\* speaker_map after "read" elements: if name and style_id is not None
SpeakerMap(read) ==
    {<<ServerSpeakers[k].name, ServerSpeakers[k].style_id>> :
        k \in {j \in 1..read : ServerSpeakers[j].name # "" /\ ServerSpeakers[j].style_id # NoStyle}}

\* load_voicevox_speakers(): the map it returns, the cache it leaves and
\* whether it queried the server
load_voicevox_speakers(cache, fetch) ==
    IF ~cache.is_none
    THEN [speaker_map |-> cache.map, cache |-> cache, fetched |-> FALSE]
    ELSE [speaker_map |-> SpeakerMap(fetch.read),
          cache |-> [is_none |-> FALSE, map |-> SpeakerMap(fetch.read)],
          fetched |-> TRUE]

Lookup(map, name) == (CHOOSE pair \in map : pair[1] = name)[2]
Has(map, name) == \E pair \in map : pair[1] = name

\* resolve_speaker_id(speaker_name)
resolve_speaker_id(speaker_name, cache, fetch) ==
    LET name == IF speaker_name = "" THEN AudioDefaultSpeakerName ELSE speaker_name
        loaded == load_voicevox_speakers(cache, fetch)
    IN  IF Has(SPEAKERS, name)
        THEN [id |-> Lookup(SPEAKERS, name), found |-> TRUE, cache |-> cache, fetched |-> FALSE]
        ELSE IF Has(loaded.speaker_map, name)
        THEN [id |-> Lookup(loaded.speaker_map, name), found |-> TRUE,
              cache |-> loaded.cache, fetched |-> loaded.fetched]
        ELSE [id |-> DEFAULT_SPEAKER_ID, found |-> FALSE,
              cache |-> loaded.cache, fetched |-> loaded.fetched]

\* a variant that probes the server whatever the cache holds
ensure_ready_AlwaysProbes(cache, up, auto_start, launched, polls, comes_up) ==
    IF up
    THEN [result |-> TRUE, cache |-> "True", probes |-> 1, up |-> up]
    ELSE [result |-> FALSE, cache |-> cache, probes |-> 1, up |-> up]

\* ensure_voicevox_ready() and ensure_lm_studio_ready(): the value
\* returned, the cache left, the health probes issued and the state of the
\* server at the return.  launched: attempt_start_...() returned True;
\* polls: the probes of the startup wait; comes_up: the last of them found
\* the server
ensure_ready(cache, up, auto_start, launched, polls, comes_up) ==
    IF cache = "True"
    THEN [result |-> TRUE, cache |-> cache, probes |-> 0, up |-> up]
    ELSE IF up
    THEN [result |-> TRUE, cache |-> "True", probes |-> 1, up |-> up]
    ELSE IF ~auto_start
    THEN [result |-> FALSE, cache |-> cache, probes |-> 1, up |-> up]
    ELSE IF launched
    THEN IF comes_up /\ polls > 0
         THEN [result |-> TRUE, cache |-> "True", probes |-> 1 + polls, up |-> TRUE]
         ELSE [result |-> FALSE, cache |-> cache, probes |-> 1 + polls, up |-> up]
    ELSE [result |-> FALSE, cache |-> cache, probes |-> 1, up |-> up]

CacheInit ==
    /\ c_pc = "run"
    /\ c_auto_start \in [Services -> BOOLEAN]
    /\ c_up \in [Services -> BOOLEAN]
    /\ c_ready_cache = [s \in Services |-> PyNone]
    /\ c_speaker_cache = NoSpeakerCache
    /\ c_calls = 0
    /\ c_probes = 0
    /\ c_returned_true = {}
    /\ c_fetched_ok = FALSE
    /\ c_last = NoCall

\* a server starts or stops between two calls
ServerChanges ==
    /\ c_pc = "run"
    /\ \E s \in Services : c_up' = [c_up EXCEPT ![s] = ~c_up[s]]
    /\ UNCHANGED <<c_pc, c_auto_start, c_ready_cache, c_speaker_cache, c_calls, c_probes,
                   c_returned_true, c_fetched_ok, c_last>>
    /\ UNCHANGED <<videoVars, textVars, genVars, pipeVars, funVars, bsdVars>>

\* a call of ensure_voicevox_ready() or ensure_lm_studio_ready()
CallEnsureReady ==
    /\ c_pc = "run"
    /\ c_calls < MaxCalls
    /\ \E s \in Services, launched \in BOOLEAN, polls \in 0..MaxPolls, comes_up \in BOOLEAN :
        LET r == ensure_ready(c_ready_cache[s], c_up[s], c_auto_start[s], launched, polls, comes_up)
        IN  /\ c_ready_cache' = [c_ready_cache EXCEPT ![s] = r.cache]
            /\ c_up' = [c_up EXCEPT ![s] = r.up]
            /\ c_probes' = c_probes + r.probes
            /\ c_returned_true' = IF r.result THEN c_returned_true \cup {s} ELSE c_returned_true
            /\ c_last' = [fn |-> "ensure_ready", arg |-> s, ok |-> r.result, id |-> 0,
                          requests |-> r.probes, up |-> r.up]
    /\ c_calls' = c_calls + 1
    /\ UNCHANGED <<c_pc, c_auto_start, c_speaker_cache, c_fetched_ok>>
    /\ UNCHANGED <<videoVars, textVars, genVars, pipeVars, funVars, bsdVars>>

\* a call of resolve_speaker_id(speaker_name)
CallResolveSpeakerId ==
    /\ c_pc = "run"
    /\ c_calls < MaxCalls
    /\ \E speaker_name \in SpeakerNames, fetch \in Fetches(c_up["voicevox"]) :
        LET r == resolve_speaker_id(speaker_name, c_speaker_cache, fetch)
        IN  /\ c_speaker_cache' = r.cache
            /\ c_fetched_ok' = (c_fetched_ok \/ (r.fetched /\ fetch.ok))
            /\ c_last' = [fn |-> "resolve_speaker_id", arg |-> speaker_name, ok |-> r.found,
                          id |-> r.id, requests |-> IF r.fetched THEN 1 ELSE 0,
                          up |-> c_up["voicevox"]]
    /\ c_calls' = c_calls + 1
    /\ UNCHANGED <<c_pc, c_auto_start, c_up, c_ready_cache, c_probes, c_returned_true>>
    /\ UNCHANGED <<videoVars, textVars, genVars, pipeVars, funVars, bsdVars>>

(***************************************************************************)
(* The specifications: each runs one part and holds the others idle.       *)
(***************************************************************************)
InitText == TextInit /\ VideoIdle /\ GenIdle /\ PipeIdle /\ FunIdle /\ BsdIdle /\ CacheIdle
NextText ==
    \/ CleanDialogue
    \/ RewriteQueue
    \/ RewriteBatch
    \/ FallbackStep
    \/ SplitStep
    \/ ProcessLine
    \/ RenderVideo
SpecText == InitText /\ [][NextText]_vars

InitVideo == VideoInit /\ TextIdle /\ GenIdle /\ PipeIdle /\ FunIdle /\ BsdIdle /\ CacheIdle
NextVideo == CreateVideo
SpecVideo == InitVideo /\ [][NextVideo]_vars

InitGen == GenInit /\ VideoIdle /\ TextIdle /\ PipeIdle /\ FunIdle /\ BsdIdle /\ CacheIdle
NextGen ==
    \/ GenEnter
    \/ GenAttempt
SpecGen == InitGen /\ [][NextGen]_vars

InitBsd == BsdInit /\ VideoIdle /\ TextIdle /\ GenIdle /\ PipeIdle /\ FunIdle /\ CacheIdle
NextBsd ==
    \/ BsdEnter
    \/ BsdSection
SpecBsd == InitBsd /\ [][NextBsd]_vars

InitFun == FunInit /\ VideoIdle /\ TextIdle /\ GenIdle /\ PipeIdle /\ BsdIdle /\ CacheIdle
NextFun ==
    \/ CallNormalizeDialogueText
    \/ CallNormalizeTtsText
    \/ NormalizeAgain
    \/ CallChunkText
    \/ CallSplitLongText
    \/ CallForceSplit
    \/ CallSplitDialogueLines
    \/ CallExtractJsonObject
    \/ CallApplyAbbreviationReadings
SpecFun == InitFun /\ [][NextFun]_vars

InitRewrite == RewriteInit /\ VideoIdle /\ GenIdle /\ PipeIdle /\ FunIdle /\ BsdIdle /\ CacheIdle
NextRewrite ==
    \/ RewriteQueue
    \/ RewriteBatch
SpecRewrite == InitRewrite /\ [][NextRewrite]_vars

InitCache == CacheInit /\ VideoIdle /\ TextIdle /\ GenIdle /\ PipeIdle /\ FunIdle /\ BsdIdle
NextCache ==
    \/ ServerChanges
    \/ CallEnsureReady
    \/ CallResolveSpeakerId
SpecCache == InitCache /\ [][NextCache]_vars

InitPipe == PipeInit /\ VideoIdle /\ TextIdle /\ GenIdle /\ FunIdle /\ BsdIdle /\ CacheIdle
NextPipe ==
    \/ EnterRun
    \/ GenerateScript
    \/ ProcessScript
    \/ MakeVideo
    \/ Upload
SpecPipe == InitPipe /\ [][NextPipe]_vars

(***************************************************************************)
(* Claims on create_podcast_video (SpecVideo).                             *)
(***************************************************************************)
\* C4: when the number of audio segments differs from the number of caption
\* lines, no caption interval at all is produced
C4_NoCaptionOnMismatch ==
    (v_pc = "returned" /\ Len(v_audio) # Len(v_dialogue)) => v_out.text_clips = <<>>

C4_Witness ==
    /\ v_pc = "returned"
    /\ v_audio # <<>>
    /\ v_dialogue # <<>>
    /\ Len(v_audio) # Len(v_dialogue)
    /\ v_out.result = OUTPUT_FILENAME
    /\ v_out.text_clips = <<>>

\* d_1 + ... + d_k
RECURSIVE SumDurations(_, _)
SumDurations(audio_files, k) ==
    IF k = 0 THEN 0 ELSE SumDurations(audio_files, k - 1) + audio_files[k].duration

\* C6: N audio segments give N intervals; interval i has index i, duration
\* d_i and starts at d_0 + ... + d_{i-1}; consecutive intervals touch, and
\* the last one ends at the duration of the concatenated audio
C6_Timeline ==
    (v_pc = "returned" /\ v_audio # <<>>) =>
        LET ct == v_out.clip_times
            n == Len(v_audio)
        IN  /\ Len(ct) = n
            /\ \A i \in 1..n :
                /\ ct[i].index = i - 1
                /\ ct[i].duration = v_audio[i].duration
                /\ ct[i].start_time = SumDurations(v_audio, i - 1)
                /\ i < n => ct[i + 1].start_time = ct[i].start_time + ct[i].duration
            /\ ct[n].start_time + ct[n].duration = v_out.duration

C6_Witness ==
    /\ v_pc = "returned"
    /\ Len(v_audio) = MaxAudio
    /\ \A i \in 1..Len(v_audio) : v_audio[i].duration > 0
    /\ v_out.clip_times[2].start_time = v_audio[1].duration
    /\ v_out.clip_times[MaxAudio].start_time > v_out.clip_times[2].start_time

\* C7: on a count mismatch the value returned to the pipeline differs from
\* the value returned by a fully captioned success
C7_MismatchSurfaced ==
    (v_pc = "returned" /\ v_dialogue # <<>> /\ Len(v_audio) # Len(v_dialogue)) =>
        v_out.result # OUTPUT_FILENAME

(***************************************************************************)
(* Claims on the text of the dialogue lines (SpecText).                    *)
(***************************************************************************)
\* C1: once the abbreviation substitution, the model-assisted rewrite and
\* the local fallback have run, no dialogue line holds a Latin letter
\* outside its <skip>...</skip> spans
C1_NoBareEnglishAfterFallback ==
    t_pc = "split" => \A k \in 1..Len(t_dialogue) : ~HasBareEnglish(t_dialogue[k].text)

\* the texts held inside the <skip>...</skip> spans of t
RECURSIVE SpanContents(_, _)
SpanContents(t, pos) ==
    LET m == SkipSpanFrom(t, pos)
    IN  IF m[1] = 0 THEN {}
        ELSE {SubSeq(t, m[1] + Len(SkipOpen), m[2] - Len(SkipClose))} \cup SpanContents(t, m[2] + 1)

\* C2: the text sent to the speech-synthesis server for a dialogue line holds
\* neither an annotation marker nor the original token of an annotation span
C2_TtsTextWithoutAnnotation ==
    \A k \in 1..Len(t_tts) :
        /\ ~Contains(t_tts[k], SkipOpen)
        /\ ~Contains(t_tts[k], SkipClose)
        /\ \A c \in SpanContents(t_dialogue[k].text, 1) : c # <<>> => ~Contains(t_tts[k], c)

\* C3: no rendered caption holds a <skip> or </skip> marker
C3_CaptionsWithoutMarkers ==
    t_pc = "rendered" =>
        \A k \in 1..Len(t_out.text_clips) :
            /\ ~Contains(t_out.text_clips[k].text, SkipOpen)
            /\ ~Contains(t_out.text_clips[k].text, SkipClose)

(***************************************************************************)
(* Claims on the retry loop of the script generators (SpecGen).            *)
(***************************************************************************)
\* an attempt fails when its reply is not extracted and parsed
AttemptFailed(outcome) == outcome \notin ParsedObjects

AllAttemptsFailed ==
    /\ Len(g_outcomes) = 3
    /\ \A k \in 1..3 : AttemptFailed(g_outcomes[k])

\* C8: a call issues at most 3 generation requests, all with the payload
\* built before the loop; no request follows an attempt whose reply was
\* extracted and parsed; when all 3 attempts failed the call returns None,
\* and a call that issued a request returns None only then
C8_BoundedRetry ==
    /\ Len(g_requests) <= 3
    /\ \A k \in 1..Len(g_requests) : g_requests[k] = g_payload
    /\ \A k \in 1..(Len(g_outcomes) - 1) : AttemptFailed(g_outcomes[k])
    /\ AllAttemptsFailed => (g_pc = "returned" /\ g_result = ReturnNone)
    /\ (g_pc = "returned" /\ g_result = ReturnNone /\ g_requests # <<>>) => AllAttemptsFailed

\* C10: the object a generator returns as a script has a "dialogue" field
\* that is a list; a parsed object without one is a failed attempt
C10_ScriptHasDialogueList ==
    /\ (g_pc = "returned" /\ g_result.value = "script_data") => g_result.dialogue = "list"
    /\ \A k \in 1..Len(g_outcomes) :
           g_outcomes[k] \in {"object_no_dialogue", "object_dialogue_not_list"} =>
               (g_pc = "loop" \/ k < Len(g_outcomes) \/ g_result = ReturnNone)

\* position i of t lies in the original of reading plus
\* annotation-wrapped original
InAnnotatedAbbreviation(t, i) ==
    MatchAt(t, i - Len(<<"R", "(">> \o SkipOpen), Annotated(<<"R">>, <<"E">>))

\* every occurrence of the abbreviation is already annotated
AlreadyAnnotated(t) ==
    \A i \in 1..Len(t) : AbbreviationMatch(t, i) => InAnnotatedAbbreviation(t, i)

\* an annotation opens inside an annotation that is still open
NestedAnnotation(t) ==
    \E i \in 1..Len(t), j \in 1..Len(t) :
        /\ i < j
        /\ MatchAt(t, i, SkipOpen)
        /\ MatchAt(t, j, SkipOpen)
        /\ \A k \in i..j : ~MatchAt(t, k, SkipClose)

\* C29: apply_abbreviation_readings leaves the text inside an annotation
\* unchanged: a line whose abbreviations are all annotated already comes
\* back unchanged, the function is idempotent, and it never nests an
\* annotation inside another
C29_AnnotatedAbbreviationUnchanged ==
    (f_pc = "returned" /\ f_fn = "apply_abbreviation_readings") =>
        /\ AlreadyAnnotated(f_text) => f_out[1] = f_text
        /\ apply_abbreviation_readings(f_out[1]) = f_out[1]
        /\ ~NestedAnnotation(f_text) => ~NestedAnnotation(f_out[1])

\* every <skip> of t is closed by a </skip>, and no Latin letter and no
\* part of a marker stands outside the spans
CompleteSpansOnly(t) ==
    /\ ~Contains(StripSkip(t), SkipOpen)
    /\ ~Contains(StripSkip(t), SkipClose)
    /\ ~HasBareEnglish(t)

\* C30: splitting never cuts through an annotation: every line produced by
\* split_dialogue_lines from a line with complete <skip>...</skip> spans
\* only and no Latin letter outside them is such a line too
C30_SplitKeepsAnnotationsWhole ==
    (f_pc = "returned" /\ f_fn = "split_dialogue_lines" /\ CompleteSpansOnly(f_text)) =>
        \A k \in 1..Len(f_out) : CompleteSpansOnly(f_out[k])

(***************************************************************************)
(* Claims on the process-wide caches (SpecCache).                          *)
(***************************************************************************)
\* the step is a call of the readiness check of service s
EnsureReadyCalled(s) ==
    /\ c_calls' # c_calls
    /\ c_last'.fn = "ensure_ready"
    /\ c_last'.arg = s

\* C26: a readiness cache is only ever unset or True; once the readiness
\* check of a service has returned True, every later call returns True
\* without a health probe, whatever the state of the server; a check that
\* fails leaves the cache unset
C26_ReadinessCacheNeverInvalidated ==
    /\ [](\A s \in Services : c_ready_cache[s] \in {PyNone, "True"})
    /\ [][\A s \in Services :
            EnsureReadyCalled(s) =>
                /\ s \in c_returned_true => (c_last'.ok /\ c_probes' = c_probes)
                /\ ~c_last'.ok => c_ready_cache'[s] = PyNone]_vars

\* a check returned True without a probe while its server was down
C26_Witness ==
    /\ c_last.fn = "ensure_ready"
    /\ c_last.ok
    /\ c_last.requests = 0
    /\ ~c_last.up
    /\ c_last.arg \in c_returned_true

\* the latest call resolved a name that is not in SPEAKERS
NeededSpeakerMap ==
    /\ c_last.fn = "resolve_speaker_id"
    /\ ~Has(SPEAKERS, IF c_last.arg = "" THEN AudioDefaultSpeakerName ELSE c_last.arg)

\* C27: the speaker cache is populated only by a successful fetch of the
\* speaker list; as long as no fetch has succeeded, a call that needs the
\* list queries the server
C27_SpeakerCacheOnlyAfterSuccessfulFetch ==
    /\ ~c_speaker_cache.is_none => c_fetched_ok
    /\ (NeededSpeakerMap /\ ~c_fetched_ok) => c_last.requests = 1

(***************************************************************************)
(* Claims on the runs of a daily pipeline (SpecPipe).                      *)
(***************************************************************************)
\* C5: in a video rendered with captions, the audio segment played during
\* caption i was synthesized in this run from dialogue line i of the script
\* of this run
C5_CaptionAudioFromSameLine ==
    \A k \in 1..Len(p_video.out.text_clips) :
        LET i == p_video.out.text_clips[k].index
            wav == p_video.audio_files[i + 1]
        IN  wav.run = p_run /\ wav.index = i

\* the generator handed back a script: an object with a dialogue list
ReturnedScript == p_gen.value = "script_data" /\ p_gen.shape = "list"

\* C9: unless the generator returned a script in this run, no script file is
\* written, the audio phase is not started, no line is sent to synthesis
\* and no video is created or uploaded in this run
C9_AudioOnlyAfterScript ==
    ~ReturnedScript =>
        /\ ~p_written
        /\ p_pc \notin {"audio", "video", "upload"}
        /\ p_sent = 0
        /\ p_video = NoPipeVideo
        /\ ~p_uploaded

\* C28: every entry point runs the cleanup pass before the first phase of
\* the pipeline, so the audio output directory holds no file of an earlier
\* run when the audio phase of a run starts
C28_CleanupBeforeEveryRun ==
    /\ p_entry # "none" => CleansUp(p_entry)
    /\ p_pc = "audio" => p_folder = {}

\* the audio files synthesis wrote in this run
FilesOfThisRun == {f \in p_folder : f.run = p_run}

\* synthesis failed for a line of the script and succeeded for another one
SynthesisFailedForSomeLine ==
    /\ FilesOfThisRun # {}
    /\ Cardinality(FilesOfThisRun) < p_sent

\* C24: when synthesis fails for a line of a script and succeeds for
\* others, the run stops after the audio phase: no video is rendered from
\* the incomplete audio, nothing is uploaded, and the run does not end as
\* finished
C24_SynthesisFailurePropagates ==
    SynthesisFailedForSomeLine =>
        /\ p_pc \notin {"video", "upload"}
        /\ p_video = NoPipeVideo
        /\ ~p_uploaded
        /\ p_end # "finished"

\* the same for a generator that reports its failure: it returns None or
\* raises
GeneratorFailureStopsRun ==
    p_gen.value \in {"None", "raised"} =>
        /\ ~p_written
        /\ p_pc = "idle"
        /\ p_sent = 0
        /\ p_video = NoPipeVideo
        /\ ~p_uploaded

\* the latest reply parsed as an object with a dialogue list
LatestReplyHasDialogueList ==
    /\ g_outcomes # <<>>
    /\ g_outcomes[Len(g_outcomes)] \in {"object_dialogue_list", "dialogue_text_not_str"}

\* an element of the reply with a usable text
WellFormed(line) == line.kind = "dict" /\ normalize_dialogue_text(line.text) # <<>>

\* C11: an element of a parsed dialogue whose text is missing or unusable
\* (absent, null, empty, no string) is dropped alone: the attempt succeeds
\* and every well-formed element of the reply is in the returned script
C11_UnusableTextDroppedAlone ==
    LatestReplyHasDialogueList =>
        /\ g_pc = "returned"
        /\ g_result.value = "script_data"
        /\ \A k \in 1..Len(g_reply) :
               WellFormed(g_reply[k]) =>
                   \E j \in 1..Len(g_cleaned_dialogue) :
                       g_cleaned_dialogue[j].text = normalize_dialogue_text(g_reply[k].text)

\* the positions of the reply whose normalized text is not empty
KeptPositions == {k \in 1..Len(g_reply) : WellFormed(g_reply[k])}

\* C12: the cleaning step returns exactly the records of the reply whose
\* normalized text is not empty, in the order of the reply, each with its
\* own speaker when it has a non-empty one and the default speaker
\* otherwise, and with its text normalized
C12_CleaningKeepsNonEmptyInOrder ==
    (g_pc = "returned" /\ g_result.value = "script_data" /\ g_result.dialogue = "list") =>
        /\ Len(g_cleaned_dialogue) = Cardinality(KeptPositions)
        /\ \A k \in KeptPositions :
               LET pos == Cardinality({j \in KeptPositions : j <= k})
                   line == g_cleaned_dialogue[pos]
               IN  /\ line.text = normalize_dialogue_text(g_reply[k].text)
                   /\ line.text # <<>>
                   /\ line.speaker = IF g_reply[k].speaker # <<>>
                                     THEN g_reply[k].speaker
                                     ELSE DEFAULT_SPEAKER_NAME

\* a reply whose first record has a text of whitespace only and whose
\* second record, without a speaker, has a text
C12_Witness ==
    /\ g_pc = "returned"
    /\ g_result.dialogue = "list"
    /\ Len(g_reply) = 2
    /\ g_reply[1] = RawEntry(<<"J", "J">>, <<" ">>)
    /\ g_reply[2] = RawEntry(<<>>, <<"J">>)
    /\ g_cleaned_dialogue = <<[speaker |-> DEFAULT_SPEAKER_NAME, text |-> <<"J">>]>>

\* C13: every script a generator returns holds only lines whose text is not
\* empty; a line whose text is empty after normalization is never kept
C13_NoEmptyLineInScript ==
    /\ (b_pc = "returned" /\ b_result = "script") =>
           \A k \in 1..Len(b_dialogue) : b_dialogue[k].text # <<>>
    /\ (g_pc = "returned" /\ g_result.value = "script_data" /\ g_result.dialogue = "list") =>
           \A k \in 1..Len(g_cleaned_dialogue) : g_cleaned_dialogue[k].text # <<>>

\* the model call or the reply extraction failed for a chunk
SomeChunkFailed == \E k \in 1..Len(b_sections) : b_sections[k].failed

\* C25: when the model call or the reply extraction fails for a chunk,
\* generate_bsd_script returns no script: a returned script has the lines
\* of every chunk, and its dialogue is not the empty one of a run in which
\* every chunk failed
C25_FailedChunkFailsGeneration ==
    (b_pc = "returned" /\ b_result = "script") =>
        /\ ~SomeChunkFailed
        /\ ~(b_dialogue = <<>> /\ \A k \in 1..Len(b_sections) : b_sections[k].failed)

\* C14: normalize_dialogue_text is idempotent
C14_NormalizeDialogueTextIdempotent ==
    (f_pc = "reapplied" /\ f_fn = "normalize_dialogue_text") => f_out[2] = f_out[1]

\* a text that normalization changes (whitespace joined between Latin
\* letters and removed next to a native character) was normalized twice
C14_Witness ==
    /\ f_pc = "reapplied"
    /\ f_fn = "normalize_dialogue_text"
    /\ f_text = <<"a", " ", " ", " ", "a">>
    /\ f_out = <<<<"a", " ", "a">>, <<"a", " ", "a">>>>

\* C15: normalize_tts_text is idempotent
C15_NormalizeTtsTextIdempotent ==
    (f_pc = "reapplied" /\ f_fn = "normalize_tts_text") => f_out[2] = f_out[1]

\* C16: in a run of two or more politeness markers separated by a slash or
\* a middle dot, normalize_tts_text replaces every separator between two
\* markers by the native comma
C16_EverySeparatorOfRunReplaced ==
    (f_pc = "returned" /\ f_fn = "normalize_tts_text") =>
        \A i \in 2..(Len(f_text) - 1) :
            (/\ f_text[i] \in HONORIFIC_SEPARATOR
             /\ f_text[i - 1] \in HONORIFIC
             /\ f_text[i + 1] \in HONORIFIC) => f_out[1][i] = ","

\* C17: every chunk of chunk_text(t, b), b >= 1, has length <= b
C17_ChunkWithinBound ==
    (f_pc = "returned" /\ f_fn = "chunk_text") =>
        \A k \in 1..Len(f_out) : Len(f_out[k]) <= f_max_chars

\* ceil(n / b)
CeilDiv(n, b) == (n + b - 1) \div b

\* C18: a single paragraph of length len > b gives exactly ceil(len / b)
\* chunks, each of length exactly b except possibly the last
C18_SingleParagraphSliced ==
    (/\ f_pc = "returned"
     /\ f_fn = "chunk_text"
     /\ ~Contains(f_text, ParagraphBreak)
     /\ Len(f_text) > f_max_chars) =>
        /\ Len(f_out) = CeilDiv(Len(f_text), f_max_chars)
        /\ \A k \in 1..(Len(f_out) - 1) : Len(f_out[k]) = f_max_chars

\* a text with its blank-line paragraph separators ignored
WithoutParagraphBreaks(t) == FlattenSeq(SplitParagraphs(t))

\* C19: the chunks of chunk_text(t, b), concatenated in order, are t when
\* the blank-line paragraph separators are ignored on both sides: no
\* character is lost, duplicated or reordered
C19_ChunksReconstructText ==
    (f_pc = "returned" /\ f_fn = "chunk_text") =>
        WithoutParagraphBreaks(FlattenSeq(f_out)) = WithoutParagraphBreaks(f_text)

\* three paragraphs, the second longer than the bound and hard-sliced
C19_Witness ==
    /\ f_pc = "returned"
    /\ f_fn = "chunk_text"
    /\ f_max_chars = 2
    /\ f_text = <<"J", "N", "N", "J", "J", "J", "N">>
    /\ Len(f_out) = 4

\* the pieces are not empty and not longer than the bound
PiecesWithinBound ==
    \A k \in 1..Len(f_out) : f_out[k] # <<>> /\ Len(f_out[k]) <= f_max_chars

\* C20: every piece of split_long_text(t, b), b >= 1, and every line that
\* split_dialogue_lines derives from it, is not empty and has length <= b;
\* split_long_text and force_split return
C20_PiecesNonEmptyWithinBound ==
    (f_pc = "returned" /\ f_fn \in {"split_long_text", "split_dialogue_lines"}) => PiecesWithinBound

\* the part of C20 about force_split and split_dialogue_lines alone
ForceSplitAndLinesWithinBound ==
    (f_pc = "returned" /\ f_fn \in {"force_split", "split_dialogue_lines"}) => PiecesWithinBound

\* the length bound of C20 alone, for the three functions
SplitPiecesNotLonger ==
    (f_pc = "returned" /\ f_fn \in {"split_long_text", "force_split", "split_dialogue_lines"}) =>
        \A k \in 1..Len(f_out) : Len(f_out[k]) <= f_max_chars

\* the object of the reply that was handed to the extraction
ReplyObject == f_text[3]

\* C21 as stated: for a reply made of a JSON object, optionally fenced,
\* between commentary without braces, the extraction yields exactly that
\* object
C21_ExtractionYieldsObject ==
    (f_pc = "returned" /\ f_fn = "extract_json_object") => f_out[1] = ReplyObject

\* C21 amended: the extraction yields exactly the object when the object
\* holds no fence marker, and in every case the text it yields for the
\* reply is the text it yields for the object alone, whatever the
\* commentary and the fences
C21_ExtractionYieldsObjectWithoutFences ==
    (f_pc = "returned" /\ f_fn = "extract_json_object") =>
        /\ ~Contains(ReplyObject, Fence) => f_out[1] = ReplyObject
        /\ f_out[1] = ExtractJsonObject(ReplyObject)

\* a nested object in a json fence between two commentaries
C21_Witness ==
    /\ f_pc = "returned"
    /\ f_fn = "extract_json_object"
    /\ f_text = <<<<"J", " ">>, FenceJson, <<"{", "J", "{", "J", "}", "}">>, Fence, <<" ", "J">>>>
    /\ f_out = <<<<"{", "J", "{", "J", "}", "}">>>>

\* the lines of the dialogue other than those of the set keep their text
KeepTextExcept(indices) ==
    \A k \in 1..Len(t_dialogue) :
        (k - 1) \notin indices => t_dialogue'[k].text = t_dialogue[k].text

SameLinesAndSpeakers ==
    /\ Len(t_dialogue') = Len(t_dialogue)
    /\ \A k \in 1..Len(t_dialogue) : t_dialogue'[k].speaker = t_dialogue[k].speaker

\* C22: a rewrite batch whose call fails or whose reply is malformed or
\* partial is not fatal: the loop goes on to the next batch until every
\* queued line was sent, every line that no record of the reply rewrote
\* keeps the text it had before the batch, and the dialogue keeps its
\* number of lines, their order and their speakers
C22_FailedBatchNotFatal ==
    [][(t_pc \in {"rewrite", "batch"}) =>
          /\ SameLinesAndSpeakers
          /\ t_pc' \in {"batch", "fallback"}
          /\ t_pc = "batch" =>
                 /\ KeepTextExcept(t_applied')
                 /\ t_pc' = "fallback" <=> t_batch_start + BatchSize(t_cfg) >= Len(t_targets)]_vars

\* two queued lines sent one by one: the first batch rewrote nothing, the
\* second batch was sent and rewrote its line
C22_Witness ==
    /\ t_pc = "fallback"
    /\ t_cfg.batch_size = 1
    /\ t_raw = <<RawEntry(<<"W">>, <<"a">>), RawEntry(<<"J">>, <<"a">>)>>
    /\ t_batch_start = 2
    /\ t_applied = {1}
    /\ t_dialogue = <<[speaker |-> <<"W">>, text |-> <<"a">>],
                      [speaker |-> <<"J">>, text |-> Annotated(<<"J">>, <<"a">>)]>>

\* the indices of the lines that were queued and are sent in the batch
\* that starts at t_batch_start
BatchIndices ==
    {t_targets[j].index :
        j \in {i \in 1..Len(t_targets) : t_batch_start < i /\ i <= t_batch_start + BatchSize(t_cfg)}}

\* C23: a record of a batch reply is applied only when its index is the
\* index of a line queued and sent in that batch; any other record changes
\* no dialogue line
C23_OnlyBatchIndicesApplied ==
    [][(t_pc = "batch") => KeepTextExcept(BatchIndices)]_vars

====
